---------------------------- MODULE Spec2Model ----------------------------
(***************************************************************************)
(* A model of the learning-rule engine of RobotLearning: the GreedyGQ      *)
(* learner with its experience replay (src/src/greedy_gq.py), the helpers  *)
(* of src/src/tools.py it uses, and the GVF learn rules                    *)
(* (src/ROSBase/src/horde/scripts/gvf.py).                                 *)
(*                                                                         *)
(* Numbers are exact rationals <<numerator, denominator>> standing for the *)
(* floats of the source; vectors are sequences of rationals standing for   *)
(* the numpy arrays.                                                       *)
(***************************************************************************)
EXTENDS Integers, Sequences, FiniteSets, TLC

(***************************************************************************)
(* Bounds of the model.                                                    *)
(***************************************************************************)
\* Number of GreedyGQ.update calls with replaying_experience=False explored.
MaxUpdates == 4
\* Number of replay invocations (uniform or prioritized) explored.
MaxReplays == 1
\* Number of calls of a GVF's learn rule explored.
MaxLearns == 3
\* The same for a learner with an alpha below 1, whose weights have
\* denominators in powers of 1000 / alpha.
MaxFineLearns == 2
\* The buffer cap (the literal 100 of greedy_gq.py lines 260 and 294) and the
\* number of replays per invocation (num_updates_to_make, the literal 10 of
\* lines 257 and 298), scaled down so that every case of the source's
\* 100 / 10 (a buffer below, at and above the cap; fewer and more entries
\* than one invocation replays) is reached within MaxUpdates calls.
BufferCap == 3
NumUpdatesToMake == 2
\* The period of the snapshots of average_td_errors (the literal 100 of
\* greedy_gq.py line 232), scaled down so that MaxUpdates calls reach it.
DumpPeriod == 2
\* calls made on a Switch
MaxPolicyCalls == 4
\* the largest num_timesteps_explore a Switch is built with
MaxExplore == 2

(***************************************************************************)
(* Rational arithmetic.                                                    *)
(***************************************************************************)
AbsInt(n) == IF n < 0 THEN -n ELSE n

RECURSIVE GCD(_, _)
GCD(a, b) == IF b = 0 THEN a ELSE GCD(b, a % b)

Rat(n, d) ==
    LET g == GCD(AbsInt(n), AbsInt(d))
    IN  IF d < 0 THEN <<(-n) \div g, (-d) \div g>> ELSE <<n \div g, d \div g>>

Zero == <<0, 1>>
One == <<1, 1>>
Two == <<2, 1>>
Half == <<1, 2>>
\* Sums over the least common denominator and products with cross
\* cancellation, so that no intermediate value is larger than needed.
RPlus(x, y) ==
    LET g == GCD(x[2], y[2])
    IN  Rat(x[1] * (y[2] \div g) + y[1] * (x[2] \div g), x[2] * (y[2] \div g))
RNeg(x) == <<-x[1], x[2]>>
RMinus(x, y) == RPlus(x, RNeg(y))
RTimes(x, y) ==
    LET g1 == GCD(AbsInt(x[1]), y[2])
        g2 == GCD(AbsInt(y[1]), x[2])
    IN  <<(x[1] \div g1) * (y[1] \div g2), (x[2] \div g2) * (y[2] \div g1)>>
\* x / y for y # 0
RDiv(x, y) == RTimes(x, Rat(y[2], y[1]))
RAbs(x) == <<AbsInt(x[1]), x[2]>>
RLeq(x, y) ==
    LET g == GCD(x[2], y[2])
    IN  x[1] * (y[2] \div g) <= y[1] * (x[2] \div g)
RLt(x, y) == ~RLeq(y, x)
FromInt(n) == <<n, 1>>

(***************************************************************************)
(* numpy vectors.  A binary operation on two arrays of different lengths   *)
(* raises ValueError in numpy; the operators below are only applied to     *)
(* arrays whose lengths the caller has compared (SameShape).               *)
(***************************************************************************)
\* The array with entries f[1], ..., f[n], as a tuple.
array(f, n) == SubSeq(f, 1, n)
zeros(n) == array([i \in 1..n |-> Zero], n)
SameShape(u, v) == Len(u) = Len(v)

RECURSIVE DotFrom(_, _, _)
DotFrom(u, v, i) ==
    IF i > Len(u) THEN Zero
    ELSE RPlus(RTimes(u[i], v[i]), DotFrom(u, v, i + 1))
dot(u, v) == DotFrom(u, v, 1)

VScale(c, v) == array([i \in 1..Len(v) |-> RTimes(c, v[i])], Len(v))
VPlus(u, v) == array([i \in 1..Len(u) |-> RPlus(u[i], v[i])], Len(u))
VMinus(u, v) == array([i \in 1..Len(u) |-> RMinus(u[i], v[i])], Len(u))

(***************************************************************************)
(* tools.py                                                                *)
(***************************************************************************)
\* np.isclose(a, b) with numpy's defaults, |a - b| <= 1e-8 + 1e-5 * |b|, on
\* integer-valued command fields (both sides multiplied by 1e8).
isclose(a, b) == AbsInt(a - b) * 100000000 <= 1 + 1000 * AbsInt(b)

\* equal_twists comparing the linear parts alone.
equal_twists_linear(t1, t2) == \A k \in 1..3 : isclose(t1[k], t2[k])

\* A Twist is <<linear.x, linear.y, linear.z, angular.x, angular.y, angular.z>>.
equal_twists(t1, t2) == \A k \in 1..6 : isclose(t1[k], t2[k])

\* The generators decay(base) and constant(base): a schedule is the generator
\* object, [decay, base, t]; t is the local t of decay (1.0 at creation).
\* draws counts the values the generator has yielded.
decay(base) == [decay |-> TRUE, base |-> base, t |-> 1, draws |-> 0]
constant(base) == [decay |-> FALSE, base |-> base, t |-> 1, draws |-> 0]
\* generator.next(): the value yielded and the generator after it.
next_value(g) == IF g.decay THEN RDiv(g.base, FromInt(g.t)) ELSE g.base
\* The generator after a yield, with "t += 1" of line 62 left out.
next_state_stalls(g) == [g EXCEPT !.draws = @ + 1]
next_state(g) == [g EXCEPT !.t = IF g.decay THEN @ + 1 ELSE @, !.draws = @ + 1]

\* action_state_rep(action_space)(state, action)
action_state_phi(action_space, state, action) ==
    LET size == Len(state)
    IN  array([j \in 1..(size * Len(action_space)) |->
                  IF equal_twists(action, action_space[((j - 1) \div size) + 1])
                  THEN state[((j - 1) % size) + 1]
                  ELSE Zero],
              size * Len(action_space))

(***************************************************************************)
(* greedy_gq.py: the GreedyGQ object.                                      *)
(***************************************************************************)
\* The Twists of the action space, in enumeration order.
FORWARD == <<1, 0, 0, 0, 0, 0>>
TURN == <<0, 0, 0, 0, 0, 1>>
action_space == <<FORWARD, TURN>>
\* The place of an action of the action space in its enumeration.
enumeration_index(action) == CHOOSE i \in 1..Len(action_space) : action_space[i] = action

\* Length of a feature vector phi; num_features is that of a state-action
\* vector.
StateLen == 2
num_features == StateLen * Len(action_space)

\* Constructor arguments.
lmbda == Half
alpha_base == Half
beta_base == One
\* finished_episode: the episode ends on a cumulant of 1.
finished_episode(cumulant) == cumulant = One

\* GreedyGQ.__init__
GreedyGQ(use_decay) ==
    [ alpha |-> IF use_decay THEN decay(alpha_base) ELSE constant(alpha_base),
      beta |-> IF use_decay THEN decay(beta_base) ELSE constant(beta_base),
      theta |-> zeros(num_features),
      sec_weights |-> zeros(num_features),
      e |-> zeros(num_features),
      last_gamma |-> Zero,
      action_phi |-> zeros(num_features),
      timeStep |-> 0,
      average_td_error |-> Zero,
      average_td_errors |-> <<Zero>>,
      delta |-> Zero,
      num_episodes |-> 0,
      tderr_elig |-> zeros(num_features),
      worst_experiences |-> <<>>,
      num_experiences |-> 0,
      episode_finished_last_step |-> FALSE,
      \* the file 'average_td_errors' of line 233: what was last written to
      \* it, and the number of times it was written
      average_td_errors_file |-> <<>>,
      dumps |-> 0 ]

get_state_action(phi, action) == action_state_phi(action_space, phi, action)

\* The dicts of lines 157-163, {temp_action: get_state_action(phi, temp_action)},
\* as the tuple of the values in the enumeration order of the keys.
state_actions(phi) ==
    array([i \in 1..Len(action_space) |-> get_state_action(phi, action_space[i])],
          Len(action_space))
lookup(dict, action) == dict[enumeration_index(action)]

\* The test of lines 168-170 with > in place of >=.
replaces_strictly(theta, reps, temp_action, current) ==
    RLt(dot(theta, lookup(reps, current)), dot(theta, lookup(reps, temp_action)))

\* The test of lines 168-170 and 183-184: does temp_action replace current?
replaces(theta, reps, temp_action, current) ==
    RLeq(dot(theta, lookup(reps, current)), dot(theta, lookup(reps, temp_action)))

\* The loops of update, lines 166-171 and 181-185: start from last_action and
\* move to every action of the enumeration that passes the test.
RECURSIVE greedy_from(_, _, _, _)
greedy_from(theta, reps, current, i) ==
    IF i > Len(action_space) THEN current
    ELSE IF replaces(theta, reps, action_space[i], current)
         THEN greedy_from(theta, reps, action_space[i], i + 1)
         ELSE greedy_from(theta, reps, current, i + 1)
greedy_action(theta, reps, last_action) == greedy_from(theta, reps, last_action, 1)

\* The window of the moving average of |delta| (lines 224-226).
\* The action argument None of predict.
NoAction == <<>>

\* np.mean of a non-empty list of numbers
RECURSIVE SumFrom(_, _)
SumFrom(q, i) == IF i > Len(q) THEN Zero ELSE RPlus(q[i], SumFrom(q, i + 1))
mean(q) == RDiv(SumFrom(q, 1), FromInt(Len(q)))

\* predict with np.sum in place of np.mean at line 102.
predict_sum(s, phi, action) ==
    IF action # NoAction
    THEN dot(get_state_action(phi, action), s.theta)
    ELSE SumFrom(array([i \in 1..Len(action_space) |->
                           dot(get_state_action(phi, action_space[i]), s.theta)],
                       Len(action_space)), 1)

\* GreedyGQ.predict
predict(s, phi, action) ==
    IF action # NoAction
    THEN dot(get_state_action(phi, action), s.theta)
    ELSE mean(array([i \in 1..Len(action_space) |->
                        dot(get_state_action(phi, action_space[i]), s.theta)],
                    Len(action_space)))

AvgWindow == 1000

\* Lines 222-230: the moving average of |delta| after a non-replayed update.
next_average_td_error(s, timeStep, abs_delta) ==
    IF Len(s.average_td_errors) >= AvgWindow
    THEN RPlus(s.average_td_error,
               RDiv(RMinus(abs_delta,
                           RAbs(s.average_td_errors[Len(s.average_td_errors) - AvgWindow + 1])),
                    FromInt(AvgWindow)))
    ELSE RPlus(s.average_td_error,
               RDiv(RMinus(abs_delta, RAbs(s.average_td_error)), FromInt(timeStep)))

\* What a call of update gives back: the object after the call, and what the
\* call did (result: "action_phi" for a return, "ValueError" for the numpy
\* exception of a shape mismatch; skipped: the early return of line 143;
\* next_greedy_action: the local of line 166; finished_evaluated: whether
\* line 236 called finished_episode).
Outcome(s, result, skipped, greedy, evaluated) ==
    [ gq |-> s, result |-> result, skipped |-> skipped,
      next_greedy_action |-> greedy, finished_evaluated |-> evaluated ]

\* Lines 232-234 with the test made on the timeStep to come.
dump_a_step_early(s) == IF (s.timeStep + 1) % DumpPeriod = 0 THEN [s EXCEPT !.average_td_errors_file = s.average_td_errors, !.dumps = @ + 1] ELSE s

\* Lines 232-234: every DumpPeriod-th timeStep the history is pickled.
dump(s) == IF s.timeStep % DumpPeriod = 0 THEN [s EXCEPT !.average_td_errors_file = s.average_td_errors, !.dumps = @ + 1] ELSE s

\* Lines 145-153 and 218-234 with the signed delta stored at line 219.
record_experience_signed(s, phi, last_action, phi_prime, cumulant, gamma, rho) ==
    LET new_experience == [ phi |-> phi, last_action |-> last_action,
                            phi_prime |-> phi_prime, cumulant |-> cumulant,
                            gamma |-> gamma, rho |-> rho,
                            id |-> s.num_experiences - 1,
                            td_error |-> s.delta ]
        timeStep == s.timeStep + 1
        average == next_average_td_error(s, timeStep, RAbs(s.delta))
    IN  dump([s EXCEPT !.worst_experiences = Append(@, new_experience),
                       !.timeStep = timeStep,
                       !.average_td_error = average,
                       !.average_td_errors = Append(@, average)])

\* Lines 145-153 and 218-240: what a non-replayed update does besides
\* learning; s is the object after line 216.
record_experience(s, phi, last_action, phi_prime, cumulant, gamma, rho) ==
    LET new_experience == [ phi |-> phi, last_action |-> last_action,
                            phi_prime |-> phi_prime, cumulant |-> cumulant,
                            gamma |-> gamma, rho |-> rho,
                            id |-> s.num_experiences - 1,
                            td_error |-> RAbs(s.delta) ]
        timeStep == s.timeStep + 1
        average == next_average_td_error(s, timeStep, RAbs(s.delta))
    IN  dump([s EXCEPT !.worst_experiences = Append(@, new_experience),
                       !.timeStep = timeStep,
                       !.average_td_error = average,
                       !.average_td_errors = Append(@, average)])

\* Lines 236-240 without the reset of line 240.
end_episode_keeps_trace(s) ==
    [s EXCEPT !.episode_finished_last_step = TRUE,
              !.num_episodes = @ + 1]

\* Lines 236-240 with theta given the reset of line 240 as well.
end_episode_resets_theta(s) ==
    [s EXCEPT !.episode_finished_last_step = TRUE,
              !.num_episodes = @ + 1,
              !.e = zeros(num_features),
              !.theta = zeros(num_features)]

\* Lines 236-240
end_episode(s) ==
    [s EXCEPT !.episode_finished_last_step = TRUE,
              !.num_episodes = @ + 1,
              !.e = zeros(num_features)]

\* The learning step with "save gamma" (line 216) moved ahead of the trace
\* update of line 194.
learn_saves_gamma_first(s, action_phi, action_phi_bar, delta, gamma, rho) ==
    LET e == VPlus(VScale(RTimes(RTimes(gamma, lmbda), rho), s.e), action_phi)
        tderr_elig == VScale(delta, e)
        w_phi == dot(s.sec_weights, action_phi)
        theta == VPlus(s.theta,
                       VScale(next_value(s.alpha),
                              VMinus(tderr_elig,
                                     VScale(RTimes(RTimes(gamma, RMinus(One, lmbda)),
                                                   w_phi),
                                            action_phi_bar))))
        sec_weights == VPlus(s.sec_weights,
                             VScale(next_value(s.beta),
                                    VMinus(tderr_elig, VScale(w_phi, action_phi))))
    IN  [s EXCEPT !.action_phi = action_phi, !.delta = delta, !.e = e, !.theta = theta,
                  !.sec_weights = sec_weights,
                  !.alpha = next_state(s.alpha), !.beta = next_state(s.beta),
                  !.tderr_elig = tderr_elig,
                  !.last_gamma = gamma]

\* Lines 193-216: the learning step, given the locals of lines 155-179.
learn(s, action_phi, action_phi_bar, delta, gamma, rho) ==
    LET e == VPlus(VScale(RTimes(RTimes(s.last_gamma, lmbda), rho), s.e), action_phi)
        tderr_elig == VScale(delta, e)
        w_phi == dot(s.sec_weights, action_phi)
        theta == VPlus(s.theta,
                       VScale(next_value(s.alpha),
                              VMinus(tderr_elig,
                                     VScale(RTimes(RTimes(s.last_gamma, RMinus(One, lmbda)),
                                                   w_phi),
                                            action_phi_bar))))
        sec_weights == VPlus(s.sec_weights,
                             VScale(next_value(s.beta),
                                    VMinus(tderr_elig, VScale(w_phi, action_phi))))
    IN  [s EXCEPT !.action_phi = action_phi, !.delta = delta, !.e = e, !.theta = theta,
                  !.sec_weights = sec_weights,
                  !.alpha = next_state(s.alpha), !.beta = next_state(s.beta),
                  !.tderr_elig = tderr_elig,
                  !.last_gamma = gamma]

\* Lines 155-243 of update, reached when the call is not skipped; s already
\* carries the incremented num_experiences of a non-replayed call.
update_body(s, phi, last_action, phi_prime, cumulant, gamma, rho, replaying_experience) ==
    LET action_phi == get_state_action(phi, last_action)
        action_phi_primes == state_actions(phi_prime)
    IN  IF ~SameShape(s.theta, lookup(action_phi_primes, last_action))
           \/ ~SameShape(s.theta, action_phi)
        THEN \* np.dot of line 168 or of line 178 raises
             Outcome([s EXCEPT !.action_phi = action_phi],
                     "ValueError", FALSE, last_action, FALSE)
        ELSE
        LET next_greedy_action == greedy_action(s.theta, action_phi_primes, last_action)
            action_phi_bar == lookup(action_phi_primes, next_greedy_action)
            delta == RMinus(RPlus(cumulant, RTimes(gamma, dot(s.theta, action_phi_bar))),
                            dot(s.theta, action_phi))
            s2 == learn(s, action_phi, action_phi_bar, delta, gamma, rho)
        IN  IF replaying_experience
            THEN Outcome(s2, "action_phi", FALSE, next_greedy_action, FALSE)
            ELSE
            LET s3 == record_experience(s2, phi, last_action, phi_prime, cumulant, gamma, rho)
            IN  Outcome(IF finished_episode(cumulant) THEN end_episode(s3) ELSE s3,
                        "action_phi", FALSE, next_greedy_action, TRUE)

\* update with the skip of lines 141-143 outside the test of line 137.
update_skips_replays(s, phi, last_action, phi_prime, cumulant, gamma, rho, replaying_experience) ==
    IF s.episode_finished_last_step
    THEN Outcome([s EXCEPT !.episode_finished_last_step = FALSE],
                 "action_phi", TRUE, last_action, FALSE)
    ELSE update_body(IF replaying_experience THEN s
                     ELSE [s EXCEPT !.num_experiences = @ + 1],
                     phi, last_action, phi_prime, cumulant, gamma, rho,
                     replaying_experience)

\* update with the early return of line 143 leaving the flag set.
update_keeps_flag(s, phi, last_action, phi_prime, cumulant, gamma, rho, replaying_experience) ==
    IF ~replaying_experience /\ s.episode_finished_last_step
    THEN Outcome(s, "action_phi", TRUE, last_action, FALSE)
    ELSE update_body(IF replaying_experience THEN s
                     ELSE [s EXCEPT !.num_experiences = @ + 1],
                     phi, last_action, phi_prime, cumulant, gamma, rho,
                     replaying_experience)

\* update with line 153 ahead of the early return of line 143.
update_counts_skipped(s, phi, last_action, phi_prime, cumulant, gamma, rho, replaying_experience) ==
    IF ~replaying_experience /\ s.episode_finished_last_step
    THEN Outcome([s EXCEPT !.episode_finished_last_step = FALSE,
                           !.num_experiences = @ + 1],
                 "action_phi", TRUE, last_action, FALSE)
    ELSE update_body(IF replaying_experience THEN s
                     ELSE [s EXCEPT !.num_experiences = @ + 1],
                     phi, last_action, phi_prime, cumulant, gamma, rho,
                     replaying_experience)

\* GreedyGQ.update
update(s, phi, last_action, phi_prime, cumulant, gamma, rho, replaying_experience) ==
    IF ~replaying_experience /\ s.episode_finished_last_step
    THEN Outcome([s EXCEPT !.episode_finished_last_step = FALSE],
                 "action_phi", TRUE, last_action, FALSE)
    ELSE update_body(IF replaying_experience THEN s
                     ELSE [s EXCEPT !.num_experiences = @ + 1],
                     phi, last_action, phi_prime, cumulant, gamma, rho,
                     replaying_experience)

(***************************************************************************)
(* greedy_gq.py: experience replay.                                        *)
(***************************************************************************)
\* Lines 281-283 and 318-320: the replayed entry's td_error is refreshed.
\* Lines 281-283 and 318-320 writing to the tail of the list.
refresh_td_error_of_last(s, index) ==
    [s EXCEPT !.worst_experiences[Len(s.worst_experiences)].td_error = RAbs(s.delta)]

\* Lines 281-283 and 318-320: the replayed entry takes the |delta| of its replay.
refresh_td_error(s, index) ==
    [s EXCEPT !.worst_experiences[index + 1].td_error = RAbs(s.delta)]

\* The replays of one invocation (the loops of lines 268-283 and 300-320):
\* for each index in turn, a replaying update of that entry, then the refresh.
\* Indices are Python's, from 0.  The log records, per replay, the index, the
\* entry replayed, the object before and after the update call and what the
\* call did.
RECURSIVE replay(_, _, _)
replay(s, indices, log) ==
    IF indices = <<>> THEN [gq |-> s, replayed |-> log]
    ELSE LET experience_index == Head(indices)
             temp_experience == s.worst_experiences[experience_index + 1]
             out == update(s, temp_experience.phi, temp_experience.last_action,
                           temp_experience.phi_prime, temp_experience.cumulant,
                           temp_experience.gamma, temp_experience.rho, TRUE)
         IN  replay(refresh_td_error(out.gq, experience_index),
                    Tail(indices),
                    Append(log, [ index |-> experience_index,
                                  experience |-> temp_experience,
                                  pre |-> s,
                                  post |-> out.gq,
                                  skipped |-> out.skipped,
                                  finished_evaluated |-> out.finished_evaluated ]))

\* list[-n:]
LastN(list, n) ==
    IF Len(list) <= n THEN list ELSE SubSeq(list, Len(list) - n + 1, Len(list))
\* list[:n]
FirstN(list, n) ==
    IF Len(list) <= n THEN list ELSE SubSeq(list, 1, n)

\* random.sample(range(0, n - 1), k): every sequence of k pairwise distinct
\* indices of 0..n-2; a ValueError when k exceeds the population, which the
\* bare except of line 265 turns into the empty list of line 256.
random_sample(n, k) ==
    IF k > n - 1 THEN { <<>> }
    ELSE { f \in [1..k -> 0..(n - 2)] : \A i, j \in 1..k : i # j => f[i] # f[j] }

\* Line 260
uniform_truncate(list) == LastN(list, BufferCap)

\* GreedyGQ.uniform_experience_replay, for the sample drawn at line 262.
uniform_experience_replay(s, random_indices) ==
    IF s.num_experiences < 1 THEN [gq |-> s, replayed |-> <<>>]
    ELSE replay([s EXCEPT !.worst_experiences = uniform_truncate(@)],
                random_indices, <<>>)

\* sorted(list, key=td_error, reverse=True): Python's sort is stable, also
\* with reverse=True, so entries of equal td_error keep their order.
\* The insertion of an ascending sort (reverse=True left out).
RECURSIVE insert_sorted_ascending(_, _)
insert_sorted_ascending(list, x) ==
    IF list = <<>> THEN <<x>>
    ELSE IF RLt(x.td_error, Head(list).td_error) THEN <<x>> \o list
    ELSE <<Head(list)>> \o insert_sorted_ascending(Tail(list), x)

RECURSIVE insert_sorted(_, _)
insert_sorted(list, x) ==
    IF list = <<>> THEN <<x>>
    ELSE IF RLt(Head(list).td_error, x.td_error) THEN <<x>> \o list
    ELSE <<Head(list)>> \o insert_sorted(Tail(list), x)

RECURSIVE sorted_from(_, _, _)
sorted_from(list, i, acc) ==
    IF i > Len(list) THEN acc
    ELSE sorted_from(list, i + 1, insert_sorted(acc, list[i]))
sorted_reverse(list) == sorted_from(list, 1, <<>>)

\* Lines 292-294
prioritized_sort(list) == FirstN(sorted_reverse(list), BufferCap)

Min(a, b) == IF a <= b THEN a ELSE b
\* range(min(num_updates_to_make, len(self.worst_experiences)))
prioritized_indices(list) ==
    array([i \in 1..Min(NumUpdatesToMake, Len(list)) |-> i - 1],
          Min(NumUpdatesToMake, Len(list)))

\* GreedyGQ.td_error_prioritized_experience_replay
td_error_prioritized_experience_replay(s) ==
    LET s1 == [s EXCEPT !.worst_experiences = prioritized_sort(@)]
    IN  IF s.num_experiences < 1 THEN [gq |-> s1, replayed |-> <<>>]
        ELSE replay(s1, prioritized_indices(s1.worst_experiences), <<>>)

(***************************************************************************)
(* gvf.py: the GVF object and its three learn rules.  The (1, n) arrays of *)
(* the source are vectors of n entries here, and the one-entry arrays that *)
(* np.inner gives are scalars.                                             *)
(***************************************************************************)
\* np.inner(u, v), and u + v of a (1, n) array and a vector, are defined for
\* operands of one length; numpy raises ValueError for an empty vector
\* against n >= 2 entries.
Conforms(u, v) == Len(u) = Len(v)

\* An array attribute that is its own object, and one that is the object
\* self.weights is bound to (after the assignment of line 148).
OwnArray(v) == [alias |-> FALSE, value |-> v]
WeightsAlias == [alias |-> TRUE, value |-> <<>>]
Deref(s, ref) == IF ref.alias THEN s.weights ELSE ref.value

\* GVF.__init__
GVF(n_features, alpha, isOffPolicy, learner) ==
    [ isOffPolicy |-> isOffPolicy,
      learn |-> learner,
      weights |-> zeros(n_features),
      hWeights |-> zeros(n_features),
      hHatWeights |-> zeros(n_features),
      eligibilityTrace |-> zeros(n_features),
      elig_delta |-> zeros(n_features),
      elig_w |-> zeros(n_features),
      gammaLast |-> One,
      rhoLast |-> One,
      lambdaLast |-> Zero,
      weightsLast |-> OwnArray(zeros(n_features)),
      weightsL |-> OwnArray(zeros(n_features)),
      alpha |-> RTimes(Rat(1, 10), alpha),
      alphaH |-> RTimes(Rat(1, 100), RTimes(Rat(1, 10), alpha)),
      alphaRUPEE |-> RTimes(FromInt(5), RTimes(Rat(1, 10), alpha)),
      betaNotUDE |-> RTimes(RTimes(Rat(1, 10), alpha), FromInt(10)),
      betaNotRUPEE |-> RDiv(RTimes(RTimes(Rat(1, 10), alpha), FromInt(6)), FromInt(30)),
      taoRUPEE |-> Zero,
      taoUDE |-> Zero,
      \* the scalar 0 of line 90, which line 210 broadcasts to n entries
      movingtdEligErrorAverage |-> zeros(n_features),
      tdVariance |-> Zero,
      averageTD |-> Zero,
      i |-> 1 ]

\* GVF.gamma, GVF.cumulant, GVF.lam: the defaults of the class.
GVF_gamma(state) == Zero
GVF_cumulant(state) == One
GVF_lam(state) == Rat(9, 10)
\* GVF.policy is overridden by every off-policy GVF; here by the policy
\* that always goes forward.
GVF_policy(state) == FORWARD

\* The ratio of a GVF that takes every action for the target policy's.
GVF_rho_on_policy(s, action, state) ==
    One

\* GVF.rho
GVF_rho(s, action, state) ==
    IF s.isOffPolicy
    THEN IF equal_twists(action, GVF_policy(state)) THEN One ELSE Zero
    ELSE One

\* GVF.prediction
GVF_prediction(s, phi) == dot(s.weights, phi)

\* np.sqrt of a real: the non-negative root of x, kept as the number it is
\* the root of, or nan for a negative x.
sqrt(x) == [result |-> IF RLt(x, Zero) THEN "nan" ELSE "number", root_of |-> x]

\* The exception np.inner raises for vectors of different lengths.
ValueError == [result |-> "ValueError", root_of |-> Zero]

\* GVF.rupee without np.absolute.
rupee_signed(s) == IF ~Conforms(s.hHatWeights, s.movingtdEligErrorAverage) THEN ValueError ELSE sqrt(dot(s.hHatWeights, s.movingtdEligErrorAverage))

\* GVF.rupee; np.inner raises for vectors of different lengths.
rupee(s) == IF ~Conforms(s.hHatWeights, s.movingtdEligErrorAverage) THEN ValueError ELSE sqrt(RAbs(dot(s.hHatWeights, s.movingtdEligErrorAverage)))

\* GVF.ude: |averageTD / (sqrt(tdVariance) + epsilon)|, kept as the numbers
\* it is computed from; nan when the root is.
epsilon == Rat(1, 1000000)
ude(s) == [result |-> sqrt(s.tdVariance).result, averageTD |-> s.averageTD, root_of |-> s.tdVariance, plus |-> epsilon]

\* What a call of a learn rule gives back: the object after the call and
\* the result ("None" for a return, "ValueError" for the numpy exception).
Learned(s, result) == [gvf |-> s, result |-> result]

\* zNext + gammaNext * inner(newState, weights) - inner(lastState, weights)
GVF_tdError(s, lastState, newState) ==
    RMinus(RPlus(GVF_cumulant(newState),
                 RTimes(GVF_gamma(newState), dot(newState, s.weights))),
           dot(lastState, s.weights))

\* The statistics with both tao traces fed 1 in place of betaNot.
GVF_statistics_unit_tao(s, tdError, trace, lastState) ==
    LET hHatWeights ==
            VPlus(s.hHatWeights,
                  VScale(s.alphaRUPEE,
                         VMinus(VScale(tdError, trace),
                                VScale(dot(s.hHatWeights, lastState), lastState))))
        taoRUPEE == RPlus(RTimes(RMinus(One, s.betaNotRUPEE), s.taoRUPEE), One)
        betaRUPEE == RDiv(s.betaNotRUPEE, taoRUPEE)
        moving == VPlus(VScale(RMinus(One, betaRUPEE), s.movingtdEligErrorAverage),
                        VScale(RTimes(betaRUPEE, tdError), trace))
        taoUDE == RPlus(RTimes(RMinus(One, s.betaNotUDE), s.taoUDE), One)
        betaUDE == RDiv(s.betaNotUDE, taoUDE)
        averageTD == RPlus(RTimes(RMinus(One, betaUDE), s.averageTD),
                           RTimes(betaUDE, tdError))
        tdVariance == RDiv(RPlus(RTimes(FromInt(s.i - 1), s.tdVariance),
                                 RTimes(RMinus(tdError, s.averageTD),
                                        RMinus(tdError, averageTD))),
                           FromInt(s.i))
    IN  [s EXCEPT !.hHatWeights = hHatWeights,
                  !.taoRUPEE = taoRUPEE,
                  !.movingtdEligErrorAverage = moving,
                  !.taoUDE = taoUDE,
                  !.averageTD = averageTD,
                  !.tdVariance = tdVariance,
                  !.i = @ + 1]

\* The statistics with the UDE step size taoUDE / betaNotUDE, the ratio
\* of line 213 inverted.
GVF_statistics_inverted_beta(s, tdError, trace, lastState) ==
    LET hHatWeights ==
            VPlus(s.hHatWeights,
                  VScale(s.alphaRUPEE,
                         VMinus(VScale(tdError, trace),
                                VScale(dot(s.hHatWeights, lastState), lastState))))
        taoRUPEE == RPlus(RTimes(RMinus(One, s.betaNotRUPEE), s.taoRUPEE), s.betaNotRUPEE)
        betaRUPEE == RDiv(s.betaNotRUPEE, taoRUPEE)
        moving == VPlus(VScale(RMinus(One, betaRUPEE), s.movingtdEligErrorAverage),
                        VScale(RTimes(betaRUPEE, tdError), trace))
        taoUDE == RPlus(RTimes(RMinus(One, s.betaNotUDE), s.taoUDE), s.betaNotUDE)
        betaUDE == RDiv(taoUDE, s.betaNotUDE)
        averageTD == RPlus(RTimes(RMinus(One, betaUDE), s.averageTD),
                           RTimes(betaUDE, tdError))
        tdVariance == RDiv(RPlus(RTimes(FromInt(s.i - 1), s.tdVariance),
                                 RTimes(RMinus(tdError, s.averageTD),
                                        RMinus(tdError, averageTD))),
                           FromInt(s.i))
    IN  [s EXCEPT !.hHatWeights = hHatWeights,
                  !.taoRUPEE = taoRUPEE,
                  !.movingtdEligErrorAverage = moving,
                  !.taoUDE = taoUDE,
                  !.averageTD = averageTD,
                  !.tdVariance = tdVariance,
                  !.i = @ + 1]

\* Lines 203-225 and 251-267: the RUPEE and UDE statistics, from the
\* tdError and the new trace.
GVF_statistics(s, tdError, trace, lastState) ==
    LET hHatWeights ==
            VPlus(s.hHatWeights,
                  VScale(s.alphaRUPEE,
                         VMinus(VScale(tdError, trace),
                                VScale(dot(s.hHatWeights, lastState), lastState))))
        taoRUPEE == RPlus(RTimes(RMinus(One, s.betaNotRUPEE), s.taoRUPEE), s.betaNotRUPEE)
        betaRUPEE == RDiv(s.betaNotRUPEE, taoRUPEE)
        moving == VPlus(VScale(RMinus(One, betaRUPEE), s.movingtdEligErrorAverage),
                        VScale(RTimes(betaRUPEE, tdError), trace))
        taoUDE == RPlus(RTimes(RMinus(One, s.betaNotUDE), s.taoUDE), s.betaNotUDE)
        betaUDE == RDiv(s.betaNotUDE, taoUDE)
        averageTD == RPlus(RTimes(RMinus(One, betaUDE), s.averageTD),
                           RTimes(betaUDE, tdError))
        tdVariance == RDiv(RPlus(RTimes(FromInt(s.i - 1), s.tdVariance),
                                 RTimes(RMinus(tdError, s.averageTD),
                                        RMinus(tdError, averageTD))),
                           FromInt(s.i))
    IN  [s EXCEPT !.hHatWeights = hHatWeights,
                  !.taoRUPEE = taoRUPEE,
                  !.movingtdEligErrorAverage = moving,
                  !.taoUDE = taoUDE,
                  !.averageTD = averageTD,
                  !.tdVariance = tdVariance,
                  !.i = @ + 1]

\* GVF._tdLearn without the assignment to gammaLast of line 271.
GVF_tdLearn_keeps_gammaLast(s, lastState, action, newState) ==
    LET lam == GVF_lam(newState)
    IN  IF ~Conforms(s.eligibilityTrace, lastState)
        THEN Learned(s, "ValueError")
        ELSE
        LET trace == VPlus(VScale(RTimes(s.gammaLast, lam), s.eligibilityTrace), lastState)
            s1 == [s EXCEPT !.eligibilityTrace = trace]
        IN  IF ~Conforms(newState, s.weights)
            THEN Learned(s1, "ValueError")
            ELSE
            LET tdError == GVF_tdError(s, lastState, newState)
                s2 == GVF_statistics(s1, tdError, trace, lastState)
            IN  Learned([s2 EXCEPT !.weights =
                                       VPlus(s.weights,
                                             VScale(RTimes(s.alpha, tdError), trace))],
                        "None")

\* GVF._tdLearn
GVF_tdLearn(s, lastState, action, newState) ==
    LET lam == GVF_lam(newState)
        gammaNext == GVF_gamma(newState)
    IN  IF ~Conforms(s.eligibilityTrace, lastState)
        THEN Learned(s, "ValueError")                            \* line 244
        ELSE
        LET trace == VPlus(VScale(RTimes(s.gammaLast, lam), s.eligibilityTrace), lastState)
            s1 == [s EXCEPT !.eligibilityTrace = trace]
        IN  IF ~Conforms(newState, s.weights)
            THEN Learned(s1, "ValueError")                       \* line 246
            ELSE
            LET tdError == GVF_tdError(s, lastState, newState)
                s2 == GVF_statistics(s1, tdError, trace, lastState)
            IN  Learned([s2 EXCEPT !.weights =
                                       VPlus(s.weights,
                                             VScale(RTimes(s.alpha, tdError), trace)),
                                   !.gammaLast = gammaNext],
                        "None")

\* GVF._gtdLearn
GVF_gtdLearn(s, lastState, action, newState) ==
    IF Len(lastState) = 0 \/ Len(newState) = 0 THEN Learned(s, "None")
    ELSE
    LET lam == GVF_lam(newState)
        gammaNext == GVF_gamma(newState)
        rho == GVF_rho(s, action, lastState)
    IN  IF ~Conforms(s.eligibilityTrace, lastState)
        THEN Learned(s, "ValueError")                            \* line 194
        ELSE
        LET trace == VScale(rho, VPlus(VScale(RTimes(s.gammaLast, lam),
                                              s.eligibilityTrace),
                                       lastState))
            s1 == [s EXCEPT !.eligibilityTrace = trace]
        IN  IF ~Conforms(newState, s.weights)
            THEN Learned(s1, "ValueError")                       \* line 195
            ELSE
            LET tdError == GVF_tdError(s, lastState, newState)
                hWeights ==
                    VPlus(s.hWeights,
                          VScale(s.alphaH,
                                 VMinus(VScale(tdError, trace),
                                        VScale(dot(s.hWeights, lastState), lastState))))
                s2 == GVF_statistics([s1 EXCEPT !.hWeights = hWeights],
                                     tdError, trace, lastState)
                weights ==
                    VPlus(s.weights,
                          VScale(s.alpha,
                                 VMinus(VScale(tdError, trace),
                                        VScale(RTimes(RTimes(gammaNext, RMinus(One, lam)),
                                                      dot(trace, hWeights)),
                                               newState))))
            IN  Learned([s2 EXCEPT !.weights = weights, !.gammaLast = gammaNext],
                        "None")

\* GVF._toGTDlearn
GVF_toGTDlearn(s, lastState, action, newState) ==
    IF Len(lastState) = 0 \/ Len(newState) = 0 THEN Learned(s, "None")
    ELSE
    LET \* lines 147-148: weightsL is bound to the array self.weights is bound
        \* to, which line 162 then changes in place
        s1 == [s EXCEPT !.weightsLast = s.weightsL, !.weightsL = WeightsAlias]
        gammaNext == GVF_gamma(newState)
        lambdaNext == GVF_lam(newState)
        rho == GVF_rho(s, action, lastState)
    IN  IF ~Conforms(newState, s.weights) \/ ~Conforms(lastState, s.weights)
        THEN Learned(s1, "ValueError")                           \* line 154
        ELSE
        LET td_err == GVF_tdError(s, lastState, newState)
            decay_last == RTimes(s.gammaLast, s.lambdaLast)
            eligibilityTrace ==
                VScale(rho,
                       VPlus(VScale(decay_last, s.eligibilityTrace),
                             VScale(RTimes(s.alpha,
                                           RMinus(One,
                                                  RTimes(RTimes(rho, decay_last),
                                                         dot(lastState,
                                                             s.eligibilityTrace)))),
                                    lastState)))
            elig_delta == VScale(rho, VPlus(VScale(decay_last, s.elig_delta), lastState))
            elig_w ==
                VPlus(VScale(RTimes(s.rhoLast, decay_last), s.elig_w),
                      VScale(RTimes(s.alphaH,
                                    RMinus(One,
                                           RTimes(RTimes(s.rhoLast, decay_last),
                                                  dot(lastState, s.elig_w)))),
                             lastState))
            weights ==
                VPlus(s.weights,
                      VMinus(VPlus(VScale(td_err, eligibilityTrace),
                                   VScale(dot(VMinus(s.weights, Deref(s1, s1.weightsLast)),
                                              newState),
                                          VMinus(eligibilityTrace,
                                                 VScale(RTimes(s.alpha, rho), newState)))),
                             VScale(RTimes(RTimes(RTimes(s.alpha, gammaNext),
                                                  RMinus(One, lambdaNext)),
                                           dot(s.hWeights, elig_delta)),
                                    newState)))
            hWeights ==
                VMinus(VPlus(s.hWeights, VScale(RTimes(rho, td_err), elig_w)),
                       VScale(RTimes(s.alphaH, dot(lastState, s.hWeights)), lastState))
        IN  Learned([s1 EXCEPT !.eligibilityTrace = eligibilityTrace,
                               !.elig_delta = elig_delta,
                               !.elig_w = elig_w,
                               !.weights = weights,
                               !.hWeights = hWeights,
                               !.rhoLast = rho,
                               !.lambdaLast = lambdaNext,
                               !.gammaLast = gammaNext],
                    "None")

\* self.learn, bound at line 66
GVF_learn(s, lastState, action, newState) ==
    IF s.learn = "GTD" THEN GVF_gtdLearn(s, lastState, action, newState)
    ELSE IF s.learn = "TO GTD" THEN GVF_toGTDlearn(s, lastState, action, newState)
    ELSE GVF_tdLearn(s, lastState, action, newState)

(***************************************************************************)
(* wall_demo_example.py: the policies that override on bump, and Switch.   *)
(* Indices are Python's, from 0; pi[i] of the code is pi[i + 1] here.      *)
(***************************************************************************)
\* self.TURN and self.FORWARD (lines 233-234, 295-296, 322-323)
self_TURN == 1
self_FORWARD == 0

\* Line 254
T == 6

RECURSIVE Pow(_, _)
Pow(b, n) == IF n = 0 THEN 1 ELSE b * Pow(b, n - 1)

RECURSIVE np_max(_, _)
np_max(q, i) ==
    IF i = Len(q) THEN q[i]
    ELSE LET rest == np_max(q, i + 1) IN IF RLeq(rest, q[i]) THEN q[i] ELSE rest

\* np.exp(k1 * x) for k1 = np.log(base) and a whole number x <= 0
exp_k1(base, x) == Rat(1, Pow(base, (0 - x[1]) \div x[2]))

\* tools.softmax of k1 * q, for k1 = np.log(base)
softmax(base, q) == LET exp_q == array([i \in 1..Len(q) |-> exp_k1(base, RMinus(q[i], np_max(q, 1)))], Len(q)) IN array([i \in 1..Len(q) |-> RDiv(exp_q[i], SumFrom(exp_q, 1))], Len(q))

\* pi *= 0; pi[index] = 1
one_hot(pi, index) ==
    array([i \in 1..Len(pi) |-> IF i = index + 1 THEN One ELSE Zero], Len(pi))

\* A policy object: the class it is of, pi and last_index, and the number of
\* update calls it has received.
Policy(kind, pi, last_index) ==
    [ kind |-> kind, pi |-> pi, last_index |-> last_index, updates |-> 0 ]

\* PavlovSoftmax.update; p is value_function(phi[feature_indices]) and the
\* preferences are kept in units of k1.
PavlovSoftmax_update(s, p, observation) ==
    IF observation.bump
    THEN [s EXCEPT !.pi = one_hot(s.pi, self_TURN)]
    ELSE LET base == (T - 1) * (Len(action_space) - 1)
             last(index) == IF s.last_index = index THEN One ELSE Zero
             prefs == [i \in 1..2 |->
                          IF i = self_TURN + 1 THEN last(self_TURN)
                          ELSE RPlus(RTimes(FromInt(4), RMinus(Half, p)),
                                     last(self_FORWARD))]
         IN  [s EXCEPT !.pi = softmax(base, array(prefs, 2))]

\* ForwardIfClear.update with "and" for the "or" of line 302.
ForwardIfClear_update_and(s, p, observation) ==
    LET last_index == IF RLt(Half, p) /\ observation.bump
                      THEN self_TURN ELSE self_FORWARD
    IN  [s EXCEPT !.last_index = last_index, !.pi = one_hot(s.pi, last_index)]

\* ForwardIfClear.update
ForwardIfClear_update(s, p, observation) ==
    LET last_index == IF RLt(Half, p) \/ observation.bump
                      THEN self_TURN ELSE self_FORWARD
    IN  [s EXCEPT !.last_index = last_index, !.pi = one_hot(s.pi, last_index)]

\* DeterministicForwardIfClear.update
DeterministicForwardIfClear_update(s, p, observation) ==
    LET last_index == IF observation.bump THEN self_TURN ELSE self_FORWARD
    IN  [s EXCEPT !.last_index = last_index,
                  !.pi = one_hot(zeros(Len(action_space)), last_index)]

\* policy.update(phi, observation) of a sub-policy of one of the three classes
Policy_update(s, p, observation) ==
    LET t == IF s.kind = "PavlovSoftmax" THEN PavlovSoftmax_update(s, p, observation)
             ELSE IF s.kind = "ForwardIfClear" THEN ForwardIfClear_update(s, p, observation)
             ELSE DeterministicForwardIfClear_update(s, p, observation)
    IN  [t EXCEPT !.updates = @ + 1]

\* Policy.get_probability: pi[action], the object unchanged.
Policy_get_probability(s, action_index) == s.pi[action_index + 1]

\* Policy.choose_action: an action drawn from pi becomes last_index.
Policy_choose_action(s, action_index) == [s EXCEPT !.last_index = action_index]

\* Switch.__init__
Switch(explorer, exploiter, num_timesteps_explore) ==
    [ explorer |-> explorer, exploiter |-> exploiter,
      num_timesteps_explore |-> num_timesteps_explore,
      last_index |-> 0, t |-> 0 ]

\* What a call on a Switch gives back: the object after the call, the
\* sub-policy the call went to and the value returned.
Delegated(sw, policy, value) == [switch |-> sw, policy |-> policy, value |-> value]

\* Switch.update with ">=" for the ">" of line 363.
Switch_update_early(sw, p, observation) ==
    LET t == sw.t + 1
    IN  IF t >= sw.num_timesteps_explore
        THEN Delegated([sw EXCEPT !.t = t, !.exploiter = Policy_update(@, p, observation)], "exploiter", Zero)
        ELSE Delegated([sw EXCEPT !.t = t, !.explorer = Policy_update(@, p, observation)], "explorer", Zero)

\* Switch.update
Switch_update(sw, p, observation) ==
    LET t == sw.t + 1
    IN  IF t > sw.num_timesteps_explore
        THEN Delegated([sw EXCEPT !.t = t, !.exploiter = Policy_update(@, p, observation)], "exploiter", Zero)
        ELSE Delegated([sw EXCEPT !.t = t, !.explorer = Policy_update(@, p, observation)], "explorer", Zero)

\* Switch.get_probability
Switch_get_probability(sw, action_index) ==
    IF sw.t > sw.num_timesteps_explore
    THEN Delegated([sw EXCEPT !.last_index = sw.exploiter.last_index], "exploiter",
                   Policy_get_probability(sw.exploiter, action_index))
    ELSE Delegated([sw EXCEPT !.last_index = sw.explorer.last_index], "explorer",
                   Policy_get_probability(sw.explorer, action_index))

\* Switch.choose_action; action_index is the action the sub-policy draws.
Switch_choose_action(sw, action_index) ==
    IF sw.t > sw.num_timesteps_explore
    THEN Delegated([sw EXCEPT !.exploiter = Policy_choose_action(@, action_index),
                              !.last_index = action_index],
                   "exploiter", FromInt(action_index))
    ELSE Delegated([sw EXCEPT !.explorer = Policy_choose_action(@, action_index),
                              !.last_index = action_index],
                   "explorer", FromInt(action_index))

(***************************************************************************)
(* The main blocks of the launcher scripts: the statements of the try      *)
(* block that create and start child processes, and the joins of the       *)
(* finally block.                                                          *)
(***************************************************************************)
Statement(op, process) == [op |-> op, process |-> process]

\* The try block of each script, in order: "new" binds the variable to an
\* mp.Process, "start" calls its start(), "setup" is everything else.
\* wall_demo_example.py runs with hyperparameter_experiment_mode = False
\* (line 398): the loop body runs once and breaks at line 543.
try_block(script) ==
    IF script = "wall_demo_example.py"
    THEN << Statement("new", "action_manager_process"),       \* lines 400-402
            Statement("start", "action_manager_process"),     \* line 403
            Statement("setup", "none"),                       \* lines 405-529
            Statement("new", "foreground_process"),           \* lines 532-539
            Statement("start", "foreground_process") >>       \* line 541
    ELSE IF script = "calculate_return_example.py"
    THEN << Statement("setup", "none"),                       \* lines 123-171
            Statement("new", "action_manager_process"),       \* lines 173-175
            Statement("start", "action_manager_process"),     \* line 177
            Statement("new", "foreground_process"),           \* lines 180-186
            Statement("start", "foreground_process") >>       \* line 188
    ELSE \* wall_demo.py (lines 48-95) and auto_docking.py (lines 16-88)
         << Statement("setup", "none"),
            Statement("new", "foreground_process"),
            Statement("new", "action_manager_process"),
            Statement("start", "foreground_process"),
            Statement("start", "action_manager_process") >>

\* The joins of the finally block, in order.  In calculate_return_example.py
\* the process joined first is named return_calculator_process.
joins == << "foreground_process", "action_manager_process" >>

Scripts ==
    { "wall_demo_example.py", "wall_demo.py", "auto_docking.py",
      "calculate_return_example.py" }

\* A main block about to enter its try block.  A variable is "unbound", or
\* bound to a process that is "created", "running", "exited" or "joined".
Launcher(script) ==
    [ script |-> script, phase |-> "try", pc |-> 1, raised |-> "none",
      foreground_process |-> "unbound", action_manager_process |-> "unbound" ]

\* One statement of the try block.
execute(l) ==
    LET statement == try_block(l.script)[l.pc]
        l1 == [l EXCEPT !.pc = @ + 1,
                        !.phase = IF l.pc = Len(try_block(l.script))
                                  THEN "finally" ELSE "try"]
    IN  IF statement.op = "new" THEN [l1 EXCEPT ![statement.process] = "created"]
        ELSE IF statement.op = "start" THEN [l1 EXCEPT ![statement.process] = "running"]
        ELSE l1

\* A ROSInterruptException raised by the statement at pc: the handler of
\* the except clause logs it and the finally block follows.
interrupt(l) == [l EXCEPT !.phase = "finally", !.raised = "ROSInterruptException"]

\* The next join of the finally block: a NameError for an unbound variable
\* is caught and passed, join() of a process never started fails its
\* assertion, and join() of a started process returns once it has exited.
join(l, process) ==
    IF l[process] = "unbound" THEN [l EXCEPT !.phase = "ended"]
    ELSE IF l[process] = "created"
    THEN [l EXCEPT !.phase = "ended", !.raised = "AssertionError"]
    ELSE [l EXCEPT ![process] = "joined",
                   !.phase = IF process = joins[Len(joins)] THEN "ended" ELSE "finally"]

(***************************************************************************)
(* The state: the learner objects and what the last operation on each was. *)
(* A run drives one learner: the GreedyGQ object or the GVF object.        *)
(***************************************************************************)
VARIABLES
    driven,    \* the learner the run drives: "GreedyGQ" or "GVF"
    gq,        \* the GreedyGQ object
    before,    \* the GreedyGQ object as the last operation found it
    call,      \* the last operation: its name, arguments and what it did
    last_update, \* the last update call with replaying_experience=False
    nUpdates,  \* update calls with replaying_experience=False so far
    nReplays,  \* replay invocations so far
    nSkipped,  \* update calls that took the early return of line 143 so far
    gvf,       \* the GVF object
    learned,   \* the last call of gvf.learn: arguments, result, object before
    nLearns,   \* calls of gvf.learn so far
    applied,   \* the last call of a function that changes nothing: name,
               \* arguments, value
    switch,    \* the Switch object, its two sub-policies inside
    selections, \* the calls made on the Switch so far: operation, sub-policy
    pcall,     \* the last call on the Switch: arguments, value, and the
               \* sub-policy object it went to as the call found it
    launcher   \* the main block of a launcher script: where it is, and the
               \* child processes its variables are bound to

vars == <<driven, gq, before, call, last_update, nUpdates, nReplays, nSkipped,
          gvf, learned, nLearns, applied, switch, selections, pcall,
          launcher>>
gqvars == <<gq, before, call, last_update, nUpdates, nReplays, nSkipped>>
gvfvars == <<gvf, learned, nLearns>>
policyvars == <<switch, selections, pcall>>

\* Transitions the driver passes to update: feature vectors of StateLen
\* entries, actions of the action space.
Transition(phi, last_action, phi_prime, cumulant, gamma, rho) ==
    [ phi |-> phi, last_action |-> last_action, phi_prime |-> phi_prime,
      cumulant |-> cumulant, gamma |-> gamma, rho |-> rho ]

Transitions ==
    { Transition(<<One, Zero>>, FORWARD, <<One, One>>, FromInt(-1), One, Two),
      Transition(<<One, One>>, TURN, <<One, Zero>>, Zero, One, Zero),
      Transition(<<One, One>>, FORWARD, <<One, Zero>>, One, Zero, Two) }

\* Transitions with an empty feature vector on either side.
DegenerateTransitions ==
    { Transition(<<>>, FORWARD, <<One, Zero>>, Zero, One, Two),
      Transition(<<One, Zero>>, TURN, <<>>, Zero, One, Two),
      Transition(<<>>, FORWARD, <<>>, One, Zero, Two) }

NoArgs == Transition(<<>>, FORWARD, <<>>, Zero, Zero, Zero)

Call(op, args, out, replayed) ==
    [ op |-> op, args |-> args, result |-> out.result, skipped |-> out.skipped,
      next_greedy_action |-> out.next_greedy_action,
      finished_evaluated |-> out.finished_evaluated, replayed |-> replayed ]

\* The feature vectors a GVF is taught with, the empty one among them, and
\* the alpha its constructor is given: GVF_alpha0 with every learn rule, and
\* the smaller GVF_alpha1 with the TD rule.
FeatureVectors == { <<One, Zero>>, <<One, One>>, <<>> }
GVF_alpha0 == FromInt(10)
GVF_alpha1 == One
GVFs ==
    { GVF(StateLen, GVF_alpha0, isOffPolicy, learner) :
          isOffPolicy \in BOOLEAN, learner \in {"TD", "GTD", "TO GTD"} }
    \cup { GVF(StateLen, GVF_alpha1, isOffPolicy, "TD") : isOffPolicy \in BOOLEAN }
\* The learners whose alpha puts betaNotUDE = 10 * (0.1 * alpha) below 1.
GVF_alpha2 == Half
FineGVFs ==
    { GVF(StateLen, GVF_alpha2, isOffPolicy, learner) :
          isOffPolicy \in BOOLEAN, learner \in {"TD", "GTD"} }

LearnCall(s, lastState, action, newState, result) ==
    [ op |-> IF result = "init" THEN "init" ELSE "learn",
      lastState |-> lastState, action |-> action, newState |-> newState,
      result |-> result, before |-> s ]

Applied(fn, args, value) == [fn |-> fn, args |-> args, value |-> value]
NotApplied == Applied("none", <<>>, <<>>)

\* The sub-policies a Switch is built from: one of the three classes, pi
\* uniform over the action space, last_index 0.
uniform == array([i \in 1..Len(action_space) |-> Rat(1, Len(action_space))], Len(action_space))
PolicyKinds == { "PavlovSoftmax", "ForwardIfClear", "DeterministicForwardIfClear" }
Policies == { Policy(kind, uniform, 0) : kind \in PolicyKinds }

\* The values value_function returns, and the observations.
PolicyValues == { Zero, Half, One }
Observations == { [bump |-> b] : b \in BOOLEAN }

PolicyCall(op, p, observation, action_index, found, out) ==
    [ op |-> op, p |-> p, observation |-> observation, action_index |-> action_index,
      before |-> found, policy |-> out.policy, value |-> out.value ]
NoPolicyCall(sw) ==
    PolicyCall("init", Zero, [bump |-> FALSE], 0, sw.explorer, Delegated(sw, "none", Zero))
InitSwitch(explorers, exploiters, explore) ==
    /\ \E explorer \in explorers, exploiter \in exploiters, n \in explore :
           switch = Switch(explorer, exploiter, n)
    /\ selections = <<>>
    /\ pcall = NoPolicyCall(switch)
NoSwitch ==
    /\ InitSwitch({Policy("PavlovSoftmax", uniform, 0)}, {Policy("ForwardIfClear", uniform, 0)}, {0})
    /\ launcher = Launcher("wall_demo_example.py")

InitLearners(d) ==
    /\ driven = d
    /\ gq = GreedyGQ(FALSE)
    /\ before = gq
    /\ call = Call("init", NoArgs, Outcome(gq, "None", FALSE, FORWARD, FALSE), <<>>)
    /\ last_update = call
    /\ nUpdates = 0
    /\ nReplays = 0
    /\ nSkipped = 0
    /\ gvf \in IF d = "GVF" THEN GVFs ELSE { GVF(StateLen, GVF_alpha0, FALSE, "TD") }
    /\ learned = LearnCall(gvf, <<>>, FORWARD, <<>>, "init")
    /\ nLearns = 0
    /\ applied = NotApplied
    /\ NoSwitch

InitGQ == InitLearners("GreedyGQ")
Init == \E d \in {"GreedyGQ", "GVF"} : InitLearners(d)

\* An uncaught exception ends the process that owns the learner.
Running ==
    /\ driven = "GreedyGQ" => call.result # "ValueError"
    /\ driven = "GVF" => learned.result # "ValueError"

\* update(..., replaying_experience=False), called by the driver.
Update ==
    /\ driven = "GreedyGQ"
    /\ Running
    /\ nUpdates < MaxUpdates
    /\ \E t \in Transitions \cup DegenerateTransitions :
         \E out \in { update(gq, t.phi, t.last_action, t.phi_prime, t.cumulant,
                             t.gamma, t.rho, FALSE) } :
             /\ gq' = out.gq
             /\ call' = Call("update", t, out, <<>>)
             /\ last_update' = call'
             /\ nSkipped' = nSkipped + (IF out.skipped THEN 1 ELSE 0)
    /\ before' = gq
    /\ nUpdates' = nUpdates + 1
    /\ UNCHANGED <<driven, nReplays, gvfvars, applied, policyvars, launcher>>

UniformReplay ==
    /\ driven = "GreedyGQ"
    /\ Running
    /\ nReplays < MaxReplays
    /\ \E random_indices \in random_sample(Len(uniform_truncate(gq.worst_experiences)),
                                           NumUpdatesToMake) :
         \E out \in { uniform_experience_replay(gq, random_indices) } :
             /\ gq' = out.gq
             /\ call' = Call("uniform", NoArgs,
                             Outcome(out.gq, "None", FALSE, FORWARD, FALSE), out.replayed)
    /\ before' = gq
    /\ nReplays' = nReplays + 1
    /\ UNCHANGED <<driven, last_update, nUpdates, nSkipped, gvfvars, applied, policyvars, launcher>>

PrioritizedReplay ==
    /\ driven = "GreedyGQ"
    /\ Running
    /\ nReplays < MaxReplays
    /\ \E out \in { td_error_prioritized_experience_replay(gq) } :
         /\ gq' = out.gq
         /\ call' = Call("prioritized", NoArgs,
                         Outcome(out.gq, "None", FALSE, FORWARD, FALSE), out.replayed)
    /\ before' = gq
    /\ nReplays' = nReplays + 1
    /\ UNCHANGED <<driven, last_update, nUpdates, nSkipped, gvfvars, applied, policyvars, launcher>>

\* gvf.learn(lastState, action, newState), called by the driver.
Learn ==
    /\ driven = "GVF"
    /\ Running
    /\ nLearns < MaxLearns
    /\ \E lastState \in FeatureVectors, newState \in FeatureVectors :
         \E action \in { action_space[i] : i \in 1..Len(action_space) } :
           \E out \in { GVF_learn(gvf, lastState, action, newState) } :
             /\ gvf' = out.gvf
             /\ learned' = LearnCall(gvf, lastState, action, newState, out.result)
    /\ nLearns' = nLearns + 1
    /\ UNCHANGED <<driven, gqvars, applied, policyvars, launcher>>

NextGQ == Update \/ UniformReplay \/ PrioritizedReplay

SpecGQ == InitGQ /\ [][NextGQ]_vars

\* The GVF learners with a small alpha.
InitFineLearners ==
    /\ driven = "GVF"
    /\ gq = GreedyGQ(FALSE)
    /\ before = gq
    /\ call = Call("init", NoArgs, Outcome(gq, "None", FALSE, FORWARD, FALSE), <<>>)
    /\ last_update = call
    /\ nUpdates = 0
    /\ nReplays = 0
    /\ nSkipped = 0
    /\ gvf \in FineGVFs
    /\ learned = LearnCall(gvf, <<>>, FORWARD, <<>>, "init")
    /\ nLearns = 0
    /\ applied = NotApplied
    /\ NoSwitch

\* gvf.learn(lastState, action, newState) on a learner with a small alpha,
\* whose weights leave the range of the integers after MaxFineLearns steps.
FineLearn ==
    /\ driven = "GVF"
    /\ Running
    /\ nLearns < MaxFineLearns
    /\ \E lastState \in FeatureVectors, newState \in FeatureVectors :
         \E action \in { action_space[i] : i \in 1..Len(action_space) } :
           \E out \in { GVF_learn(gvf, lastState, action, newState) } :
             /\ gvf' = out.gvf
             /\ learned' = LearnCall(gvf, lastState, action, newState, out.result)
    /\ nLearns' = nLearns + 1
    /\ UNCHANGED <<driven, gqvars, applied, policyvars, launcher>>

NextFineLearners == FineLearn

SpecFineLearners == InitFineLearners /\ [][NextFineLearners]_vars

\* The GreedyGQ learner built with decay=False or decay=True.
InitSchedules ==
    /\ driven = "GreedyGQ"
    /\ \E use_decay \in BOOLEAN : gq = GreedyGQ(use_decay)
    /\ before = gq
    /\ call = Call("init", NoArgs, Outcome(gq, "None", FALSE, FORWARD, FALSE), <<>>)
    /\ last_update = call
    /\ nUpdates = 0
    /\ nReplays = 0
    /\ nSkipped = 0
    /\ gvf = GVF(StateLen, GVF_alpha0, FALSE, "TD")
    /\ learned = LearnCall(gvf, <<>>, FORWARD, <<>>, "init")
    /\ nLearns = 0
    /\ applied = NotApplied
    /\ NoSwitch
SpecSchedules == InitSchedules /\ [][NextGQ]_vars

Next == Update \/ UniformReplay \/ PrioritizedReplay \/ Learn

Spec == Init /\ [][Next]_vars

(***************************************************************************)
(* The functions that change nothing, applied to arguments drawn from      *)
(* bounded sets.                                                           *)
(***************************************************************************)
\* Weight vectors a GreedyGQ learner may hold, and feature vectors.
WeightValues == { FromInt(-1), Zero, Two }
WeightVectors ==
    { <<a, b, c, d>> : a \in WeightValues, b \in WeightValues,
                       c \in WeightValues, d \in WeightValues }
Features == { <<One, Zero>>, <<One, One>>, <<Zero, Two>> }

\* The action spaces the scripts build: wall_demo_example.py (forward,
\* turn), calculate_return_example.py (stop, forward, turn) and
\* auto_docking.py (stop, forward, backward, turn either way).
STOP == <<0, 0, 0, 0, 0, 0>>
BACKWARD == <<-1, 0, 0, 0, 0, 0>>
TURN_BACK == <<0, 0, 0, 0, 0, -1>>
ActionSpaces ==
    { <<FORWARD, TURN>>,
      <<STOP, FORWARD, TURN>>,
      <<STOP, FORWARD, BACKWARD, TURN, TURN_BACK>> }

InitFunctions ==
    /\ driven = "GreedyGQ"
    /\ \E theta \in WeightVectors : gq = [GreedyGQ(FALSE) EXCEPT !.theta = theta]
    /\ before = gq
    /\ call = Call("init", NoArgs, Outcome(gq, "None", FALSE, FORWARD, FALSE), <<>>)
    /\ last_update = call
    /\ nUpdates = 0
    /\ nReplays = 0
    /\ nSkipped = 0
    /\ gvf = GVF(StateLen, GVF_alpha0, FALSE, "TD")
    /\ learned = LearnCall(gvf, <<>>, FORWARD, <<>>, "init")
    /\ nLearns = 0
    /\ applied = NotApplied
    /\ NoSwitch

\* gq.predict(phi, action)
Predict ==
    /\ \E phi \in Features :
         \E action \in { action_space[i] : i \in 1..Len(action_space) } \cup { NoAction } :
             applied' = Applied("predict", [phi |-> phi, action |-> action],
                                predict(gq, phi, action))
    /\ UNCHANGED <<driven, gqvars, gvfvars, policyvars, launcher>>

\* action_state_rep(space)(state, action)
Represent ==
    /\ \E space \in ActionSpaces, state \in Features :
         \E i \in 1..Len(space) :
             applied' = Applied("action_state_phi",
                                [action_space |-> space, state |-> state,
                                 action |-> space[i]],
                                action_state_phi(space, state, space[i]))
    /\ UNCHANGED <<driven, gqvars, gvfvars, policyvars, launcher>>

NextFunctions == Predict \/ Represent

SpecFunctions == InitFunctions /\ [][NextFunctions]_vars

(***************************************************************************)
(* A Switch over two sub-policies, driven by update, get_probability and   *)
(* choose_action calls.                                                    *)
(***************************************************************************)
InitPolicies ==
    /\ driven = "Switch"
    /\ gq = GreedyGQ(FALSE)
    /\ before = gq
    /\ call = Call("init", NoArgs, Outcome(gq, "None", FALSE, FORWARD, FALSE), <<>>)
    /\ last_update = call
    /\ nUpdates = 0
    /\ nReplays = 0
    /\ nSkipped = 0
    /\ gvf = GVF(StateLen, GVF_alpha0, FALSE, "TD")
    /\ learned = LearnCall(gvf, <<>>, FORWARD, <<>>, "init")
    /\ nLearns = 0
    /\ applied = NotApplied
    /\ InitSwitch(Policies, Policies, 0..MaxExplore)
    /\ launcher = Launcher("wall_demo_example.py")

Selected(op, out) == Append(selections, [op |-> op, policy |-> out.policy])

\* switch.update(phi, observation)
SwitchUpdate ==
    /\ Len(selections) < MaxPolicyCalls
    /\ \E p \in PolicyValues, observation \in Observations :
         \E out \in { Switch_update(switch, p, observation) } :
             /\ switch' = out.switch
             /\ selections' = Selected("update", out)
             /\ pcall' = PolicyCall("update", p, observation, 0, switch[out.policy], out)
    /\ UNCHANGED <<driven, gqvars, gvfvars, applied, launcher>>

\* switch.get_probability(action)
SwitchGetProbability ==
    /\ Len(selections) < MaxPolicyCalls
    /\ \E action_index \in 0..(Len(action_space) - 1) :
         \E out \in { Switch_get_probability(switch, action_index) } :
             /\ switch' = out.switch
             /\ selections' = Selected("get_probability", out)
             /\ pcall' = PolicyCall("get_probability", Zero, [bump |-> FALSE],
                                    action_index, switch[out.policy], out)
    /\ UNCHANGED <<driven, gqvars, gvfvars, applied, launcher>>

\* switch.choose_action(): the sub-policy draws an action pi gives weight to
SwitchChooseAction ==
    /\ Len(selections) < MaxPolicyCalls
    /\ \E action_index \in 0..(Len(action_space) - 1) :
         \E out \in { Switch_choose_action(switch, action_index) } :
             /\ RLt(Zero, switch[out.policy].pi[action_index + 1])
             /\ switch' = out.switch
             /\ selections' = Selected("choose_action", out)
             /\ pcall' = PolicyCall("choose_action", Zero, [bump |-> FALSE],
                                    action_index, switch[out.policy], out)
    /\ UNCHANGED <<driven, gqvars, gvfvars, applied, launcher>>

NextPolicies == SwitchUpdate \/ SwitchGetProbability \/ SwitchChooseAction

SpecPolicies == InitPolicies /\ [][NextPolicies]_vars

(***************************************************************************)
(* The main block of a launcher script, interrupted or not, and its child  *)
(* processes.                                                              *)
(***************************************************************************)
InitLaunchers ==
    /\ driven = "launcher"
    /\ gq = GreedyGQ(FALSE)
    /\ before = gq
    /\ call = Call("init", NoArgs, Outcome(gq, "None", FALSE, FORWARD, FALSE), <<>>)
    /\ last_update = call
    /\ nUpdates = 0
    /\ nReplays = 0
    /\ nSkipped = 0
    /\ gvf = GVF(StateLen, GVF_alpha0, FALSE, "TD")
    /\ learned = LearnCall(gvf, <<>>, FORWARD, <<>>, "init")
    /\ nLearns = 0
    /\ applied = NotApplied
    /\ InitSwitch({Policy("PavlovSoftmax", uniform, 0)}, {Policy("ForwardIfClear", uniform, 0)}, {0})
    /\ \E script \in Scripts : launcher = Launcher(script)

LauncherFrame == UNCHANGED <<driven, gqvars, gvfvars, applied, policyvars>>

\* The statement at pc runs to its end.
Execute ==
    /\ launcher.phase = "try"
    /\ launcher' = execute(launcher)
    /\ LauncherFrame

\* The statement at pc raises ROSInterruptException.
Interrupt ==
    /\ launcher.phase = "try"
    /\ launcher' = interrupt(launcher)
    /\ LauncherFrame

\* A running child process exits.
ChildExits ==
    /\ \E process \in { joins[i] : i \in 1..Len(joins) } :
           /\ launcher[process] = "running"
           /\ launcher' = [launcher EXCEPT ![process] = "exited"]
    /\ LauncherFrame

\* The finally block goes on: the first variable not yet joined is joined;
\* join() of a running process blocks until the process exits.
Join ==
    /\ launcher.phase = "finally"
    /\ \E i \in 1..Len(joins) :
           /\ \A j \in 1..(i - 1) : launcher[joins[j]] = "joined"
           /\ launcher[joins[i]] # "joined"
           /\ launcher[joins[i]] # "running"
           /\ launcher' = join(launcher, joins[i])
    /\ LauncherFrame

NextLaunchers == Execute \/ Interrupt \/ ChildExits \/ Join

SpecLaunchers == InitLaunchers /\ [][NextLaunchers]_vars

(***************************************************************************)
(* Properties of GreedyGQ, checked under SpecGQ.                           *)
(***************************************************************************)

\* C1: in every reachable state worst_experiences holds at most BufferCap
\* experiences (100 in the source), whatever the interleaving of non-replayed
\* updates and replays.
C1_BufferBounded == Len(gq.worst_experiences) <= BufferCap

\* The fields C2 names are the same in objects s and t.
C2_NoOp(s, t) ==
    /\ t.theta = s.theta
    /\ t.sec_weights = s.sec_weights
    /\ t.e = s.e
    /\ t.last_gamma = s.last_gamma
    /\ t.worst_experiences = s.worst_experiences
    /\ t.num_experiences = s.num_experiences
    /\ t.timeStep = s.timeStep

\* C2 as stated: a non-replayed update called with a finishing cumulant
\* returns (when it returns) with the eligibility trace at zero, and the non-replayed update
\* that follows it changes none of theta, sec_weights, e, last_gamma,
\* worst_experiences, num_experiences, timeStep.
C2_FinishThenNoOp ==
    [][ /\ (call'.op = "update" /\ call'.result # "ValueError"
            /\ finished_episode(call'.args.cumulant))
            => gq'.e = zeros(num_features)
        /\ (/\ call'.op = "update"
            /\ last_update.op = "update"
            /\ finished_episode(last_update.args.cumulant))
            => C2_NoOp(gq, gq') ]_vars

\* C2, amended: the same of a non-replayed update that is applied (not
\* itself the skipped call after an episode end) with a finishing cumulant.
C2_AppliedFinishThenNoOp ==
    [][ /\ (call'.op = "update" /\ call'.result # "ValueError" /\ ~call'.skipped
            /\ finished_episode(call'.args.cumulant))
            => gq'.e = zeros(num_features)
        /\ (/\ call'.op = "update"
            /\ last_update.op = "update"
            /\ ~last_update.skipped
            /\ finished_episode(last_update.args.cumulant))
            => C2_NoOp(gq, gq') ]_vars

\* C2's case: an episode ended, replays ran and left a trace, and the next
\* non-replayed update was skipped.
C2_Witness ==
    /\ call.op = "update"
    /\ call.skipped
    /\ before.num_episodes > 0
    /\ before.e # zeros(num_features)
    /\ C2_NoOp(before, gq)

\* C3: an update with replaying_experience=True leaves num_experiences,
\* worst_experiences, timeStep, average_td_error, average_td_errors,
\* num_episodes and episode_finished_last_step as they were, does not call
\* finished_episode, and is applied (it learns from the replayed transition)
\* also when episode_finished_last_step is true.
C3_ReplayingUpdateFrame ==
    \A i \in 1..Len(call.replayed) :
        LET r == call.replayed[i]
        IN  /\ r.post.num_experiences = r.pre.num_experiences
            /\ r.post.worst_experiences = r.pre.worst_experiences
            /\ r.post.timeStep = r.pre.timeStep
            /\ r.post.average_td_error = r.pre.average_td_error
            /\ r.post.average_td_errors = r.pre.average_td_errors
            /\ r.post.num_episodes = r.pre.num_episodes
            /\ r.post.episode_finished_last_step = r.pre.episode_finished_last_step
            /\ ~r.finished_evaluated
            /\ ~r.skipped
            /\ r.post.last_gamma = r.experience.gamma
            /\ r.post.action_phi =
                   get_state_action(r.experience.phi, r.experience.last_action)

\* C3's case: a replay made while episode_finished_last_step was true.
C3_Witness ==
    \E i \in 1..Len(call.replayed) :
        /\ call.replayed[i].pre.episode_finished_last_step
        /\ call.replayed[i].post.theta # call.replayed[i].pre.theta

\* The experiences of a buffer, their ids, and the entry of a given id.
Entries(list) == { list[i] : i \in 1..Len(list) }
Ids(list) == { list[i].id : i \in 1..Len(list) }
EntryOf(list, id) == CHOOSE x \in Entries(list) : x.id = id
NonIncreasing(list) ==
    \A i, j \in 1..Len(list) : i < j => RLeq(list[j].td_error, list[i].td_error)
\* x and y agree on every field but td_error
SameTransition(x, y) ==
    /\ x.phi = y.phi /\ x.last_action = y.last_action /\ x.phi_prime = y.phi_prime
    /\ x.cumulant = y.cumulant /\ x.gamma = y.gamma /\ x.rho = y.rho /\ x.id = y.id

\* The greedy-GQ temporal-difference error of transition x under weights
\* theta: cumulant + gamma * max_a theta.x(phi', a) - theta.x(phi, last_action).
QValues(theta, phi) ==
    { dot(theta, get_state_action(phi, action_space[i])) : i \in 1..Len(action_space) }
MaxQ(theta, phi) ==
    CHOOSE v \in QValues(theta, phi) : \A w \in QValues(theta, phi) : RLeq(w, v)
TDError(theta, x) ==
    RMinus(RPlus(x.cumulant, RTimes(x.gamma, MaxQ(theta, x.phi_prime))),
           dot(theta, get_state_action(x.phi, x.last_action)))

C5_UniformReplay ==
    call.op = "uniform" =>
        LET old == before.worst_experiences
            new == gq.worst_experiences
            log == call.replayed
        IN  /\ Len(new) = Min(Len(old), BufferCap)
            /\ \A i \in 1..Len(new) :
                   new[i].id = old[Len(old) - Len(new) + i].id
            /\ Len(new) >= 2 =>
                   /\ Len(log) = NumUpdatesToMake
                   /\ \A i, j \in 1..Len(log) : i # j => log[i].index # log[j].index
            /\ Len(log) = 0 => Len(new) < 2

\* C6: when td_error_prioritized_experience_replay starts replaying, and when
\* it returns, worst_experiences is in non-increasing order of td_error.
C6_SortedAfterPrioritizedReplay ==
    call.op = "prioritized" =>
        /\ Len(call.replayed) > 0
               => NonIncreasing(call.replayed[1].pre.worst_experiences)
        /\ NonIncreasing(gq.worst_experiences)

\* The value of action a at the next state of the last update call, and
\* whether a attains the maximum over the action space.
C7_Value(a) == dot(before.theta, get_state_action(call.args.phi_prime, a))
C7_Maximal(a) ==
    \A i \in 1..Len(action_space) : RLeq(C7_Value(action_space[i]), C7_Value(a))

\* C7 as stated: the bootstrap action of an update that reaches line 166
\* and returns attains the
\* maximum of theta.x(phi', a) over the action space and is the first action
\* of the enumeration that does.
C7_GreedyFirstMaximizer ==
    (call.op = "update" /\ call.result # "ValueError" /\ ~call.skipped) =>
        /\ C7_Maximal(call.next_greedy_action)
        /\ \A i \in 1..Len(action_space) :
               C7_Maximal(action_space[i])
                   => enumeration_index(call.next_greedy_action) <= i

\* C7, amended: the bootstrap action attains the maximum and is the last
\* action of the enumeration that does, whatever last_action is.
C7_GreedyLastMaximizer ==
    (call.op = "update" /\ call.result # "ValueError" /\ ~call.skipped) =>
        /\ C7_Maximal(call.next_greedy_action)
        /\ \A i \in 1..Len(action_space) :
               C7_Maximal(action_space[i])
                   => i <= enumeration_index(call.next_greedy_action)

\* C7's case: several actions attain the maximum, last_action among them, and
\* another one is chosen.
C7_Witness ==
    /\ call.op = "update" /\ call.result # "ValueError" /\ ~call.skipped
    /\ before.theta # zeros(num_features)
    /\ C7_Maximal(call.args.last_action)
    /\ call.next_greedy_action # call.args.last_action

\* C8: for every learner variant, a call whose current or next feature
\* vector is empty changes nothing of the learner, returns None and raises no
\* error.
C8_EmptyVectorNoOp ==
    /\ (learned.op = "learn" /\ (learned.lastState = <<>> \/ learned.newState = <<>>))
           => (gvf = learned.before /\ learned.result = "None")
    /\ (call.op = "update" /\ (call.args.phi = <<>> \/ call.args.phi_prime = <<>>))
           => (gq = before /\ call.result = "None")

\* What C9 says a non-replayed update does to the buffer: one entry more, at
\* the end, holding the arguments of the call and the |delta| of the call.
C9_Appended ==
    LET old == before.worst_experiences
        new == gq.worst_experiences
        x == new[Len(new)]
    IN  /\ Len(new) = Len(old) + 1
        /\ SubSeq(new, 1, Len(old)) = old
        /\ x.phi = call.args.phi /\ x.last_action = call.args.last_action
        /\ x.phi_prime = call.args.phi_prime /\ x.cumulant = call.args.cumulant
        /\ x.gamma = call.args.gamma /\ x.rho = call.args.rho
        /\ gq.delta = TDError(before.theta, call.args)
        /\ x.td_error = RAbs(gq.delta)

C10_ExperiencesImmutable ==
    LET old == before.worst_experiences
        new == gq.worst_experiences
        replayed_ids == { call.replayed[i].experience.id :
                              i \in 1..Len(call.replayed) }
    IN  /\ \A x \in Entries(new) :
               x.id \in Ids(old) =>
                   /\ SameTransition(x, EntryOf(old, x.id))
                   /\ x.id \notin replayed_ids => x = EntryOf(old, x.id)
        /\ Cardinality(Ids(new)) = Len(new)
        /\ call.op \in {"uniform", "prioritized"} => Ids(new) \subseteq Ids(old)
        /\ call.op = "update" => SubSeq(new, 1, Len(old)) = old

\* C10's case: a replay that changed the td_error of an entry and kept an
\* entry it did not replay.
C10_Witness ==
    /\ call.op \in {"uniform", "prioritized"}
    /\ \E x \in Entries(gq.worst_experiences) :
           x.td_error # EntryOf(before.worst_experiences, x.id).td_error
    /\ \E x \in Entries(gq.worst_experiences) :
           x.id \notin { call.replayed[i].experience.id : i \in 1..Len(call.replayed) }

\* C11: every episode end makes exactly one non-replayed update take the
\* early return: an update is skipped exactly when the flag was set, the
\* skipped call clears it, and the number of skipped updates is
\* num_episodes, less one while episode_finished_last_step is set.
C11_OneSkipPerEpisode ==
    /\ nSkipped = gq.num_episodes - (IF gq.episode_finished_last_step THEN 1 ELSE 0)
    /\ (call.op = "update" /\ call.result # "ValueError")
           => (call.skipped <=> before.episode_finished_last_step)
    /\ (call.op = "update" /\ call.skipped) => ~gq.episode_finished_last_step

\* C11's case: two episodes ended, one skip made and one pending.
C11_Witness ==
    /\ gq.num_episodes = 2
    /\ nSkipped = 1
    /\ gq.episode_finished_last_step

\* The dot product of theta's block for the k-th action with phi.
RECURSIVE BlockDot(_, _, _, _)
BlockDot(theta, phi, k, i) ==
    IF i > Len(phi) THEN Zero
    ELSE RPlus(RTimes(theta[(k - 1) * Len(phi) + i], phi[i]),
               BlockDot(theta, phi, k, i + 1))
RECURSIVE BlockDotSum(_, _, _)
BlockDotSum(theta, phi, k) ==
    IF k > Len(action_space) THEN Zero
    ELSE RPlus(BlockDot(theta, phi, k, 1), BlockDotSum(theta, phi, k + 1))

\* C12: predict(phi, a) is theta . stateaction(phi, a), the dot product of
\* phi with the block of theta that belongs to a, and predict(phi, None) is
\* the arithmetic mean of predict(phi, a) over the actions of the space.
C12_PredictMean ==
    applied.fn = "predict" =>
        IF applied.args.action = NoAction
        THEN RTimes(FromInt(Len(action_space)), applied.value)
                 = BlockDotSum(gq.theta, applied.args.phi, 1)
        ELSE applied.value
                 = BlockDot(gq.theta, applied.args.phi,
                            enumeration_index(applied.args.action), 1)

\* C12's case: a mean that is the value of no single action.
C12_Witness ==
    /\ applied.fn = "predict"
    /\ applied.args.action = NoAction
    /\ applied.value # Zero
    /\ \A i \in 1..Len(action_space) :
           applied.value # predict(gq, applied.args.phi, action_space[i])

\* C13: the vector action_state_rep builds has |action space| blocks of
\* |state| entries each; the block at the place of the taken action in the
\* enumeration is the state and every other block is zero.
C13_OneBlockCarriesState ==
    applied.fn = "action_state_phi" =>
        LET space == applied.args.action_space
            state == applied.args.state
            taken == CHOOSE k \in 1..Len(space) : space[k] = applied.args.action
            block(k) == SubSeq(applied.value, (k - 1) * Len(state) + 1, k * Len(state))
        IN  /\ Len(applied.value) = Len(space) * Len(state)
            /\ \A k \in 1..Len(space) :
                   block(k) = IF k = taken THEN state ELSE zeros(Len(state))

\* C13's case: an action in the middle of a space of five actions that
\* differs from another one in its angular part alone.
C13_Witness ==
    /\ applied.fn = "action_state_phi"
    /\ Len(applied.args.action_space) = 5
    /\ applied.args.action = TURN
    /\ applied.args.state = <<Zero, Two>>
    /\ applied.value # zeros(10)

\* gamma_prev * lambda * rho * e_prev + x, for the transition x of an update
\* that found the object s.
C14_Trace(s, x) ==
    LET decayed == RTimes(RTimes(s.last_gamma, lmbda), x.rho)
        x_k == action_state_phi(action_space, x.phi, x.last_action)
    IN  [j \in 1..num_features |-> RPlus(RTimes(decayed, s.e[j]), x_k[j])]

\* C14: every applied update that does not end an episode, replaying or not,
\* leaves e = gamma_prev * lambda * rho * e_prev + x, where gamma_prev is
\* the gamma passed to the applied update before it (0 before the first) and
\* e_prev the trace that update left (zero at construction).
C14_TraceRecursion ==
    /\ call.op = "init" => (gq.e = zeros(num_features) /\ gq.last_gamma = Zero)
    /\ (call.op = "update" /\ call.result # "ValueError" /\ ~call.skipped) =>
           /\ gq.last_gamma = call.args.gamma
           /\ ~finished_episode(call.args.cumulant)
                  => \A j \in 1..num_features : gq.e[j] = C14_Trace(before, call.args)[j]
    /\ \A i \in 1..Len(call.replayed) :
           LET r == call.replayed[i]
           IN  /\ r.post.last_gamma = r.experience.gamma
               /\ \A j \in 1..num_features :
                      r.post.e[j] = C14_Trace(r.pre, r.experience)[j]

\* C14's case: an update that finds a trace and decays it by a factor other
\* than 0 before adding its own vector.
C14_Witness ==
    /\ call.op = "update" /\ call.result # "ValueError" /\ ~call.skipped
    /\ ~finished_episode(call.args.cumulant)
    /\ before.e # zeros(num_features)
    /\ before.last_gamma = One
    /\ call.args.rho = Two
    /\ gq.e # action_state_phi(action_space, call.args.phi, call.args.last_action)

\* What lines 155-216 alone make of the object s for the transition x: the
\* update step without the episode bookkeeping of lines 218-240.
C15_UpdateStep(s, x) ==
    update(s, x.phi, x.last_action, x.phi_prime, x.cumulant, x.gamma, x.rho, TRUE).gq

\* C15: theta, sec_weights and e are zero vectors at construction; an update
\* that ends an episode leaves e zero and theta, sec_weights and last_gamma
\* as its update step left them; no other call resets a vector: a skipped
\* update leaves all three as they were, and every other applied update,
\* replaying or not, leaves theta, sec_weights and e as its update step did,
\* with e the decayed trace plus the call's own state-action vector.
C15_OnlyTraceReset ==
    /\ call.op = "init" =>
           /\ gq.theta = zeros(num_features)
           /\ gq.sec_weights = zeros(num_features)
           /\ gq.e = zeros(num_features)
    /\ (call.op = "update" /\ call.result # "ValueError") =>
           IF call.skipped
           THEN /\ gq.theta = before.theta
                /\ gq.sec_weights = before.sec_weights
                /\ gq.e = before.e
                /\ gq.last_gamma = before.last_gamma
           ELSE LET step == C15_UpdateStep(before, call.args)
                IN  /\ gq.theta = step.theta
                    /\ gq.sec_weights = step.sec_weights
                    /\ gq.last_gamma = step.last_gamma
                    /\ step.e = array(C14_Trace(before, call.args), num_features)
                    /\ gq.e = IF finished_episode(call.args.cumulant)
                              THEN zeros(num_features) ELSE step.e
    /\ \A i \in 1..Len(call.replayed) :
           LET r == call.replayed[i]
           IN  /\ r.post.e = array(C14_Trace(r.pre, r.experience), num_features)
               /\ r.post.e # zeros(num_features)

\* C15's case: an update ends an episode of a learner whose theta,
\* sec_weights and trace all hold values.
C15_Witness ==
    /\ call.op = "update" /\ call.result # "ValueError" /\ ~call.skipped
    /\ finished_episode(call.args.cumulant)
    /\ before.e # zeros(num_features)
    /\ gq.e = zeros(num_features)
    /\ gq.theta # zeros(num_features)
    /\ gq.sec_weights # zeros(num_features)
    /\ gq.theta # before.theta

\* C16: after any sequence of learn calls, none included, rupee() returns
\* a number (no exception, no nan) and that number is the root of a
\* non-negative real, hence at least 0.
C16_RupeeNonNegative ==
    /\ rupee(gvf).result = "number"
    /\ RLeq(Zero, rupee(gvf).root_of)

\* C16's case: learn calls have made the inner product of hHatWeights and
\* movingtdEligErrorAverage negative.
C16_Witness ==
    /\ nLearns >= 2
    /\ RLt(dot(gvf.hHatWeights, gvf.movingtdEligErrorAverage), Zero)
    /\ RLt(Zero, rupee(gvf).root_of)

\* A learn call that ran the statistics of its rule: a TD or GTD call that
\* returned, and for GTD not by the early return of line 176.
C17_Step ==
    /\ learned.op = "learn" /\ learned.result = "None"
    /\ \/ gvf.learn = "TD"
       \/ gvf.learn = "GTD" /\ learned.lastState # <<>> /\ learned.newState # <<>>

\* 0 < beta0 <= 1
C17_Admissible(beta0) == RLt(Zero, beta0) /\ RLeq(beta0, One)

\* What C17 says of one trace across the step from object s to object t.
C17_Tao(beta0, tao, tao_after) ==
    LET beta == RDiv(beta0, tao_after)
    IN  /\ RLeq(tao, tao_after)
        /\ RLt(Zero, tao_after) /\ RLeq(tao_after, One)
        /\ RLeq(beta0, beta) /\ RLeq(beta, One)
        /\ tao = Zero => beta = One

\* C17: taoRUPEE and taoUDE are 0 at construction; across a TD or GTD learn
\* step a trace whose betaNot lies in (0, 1] does not decrease and ends in
\* (0, 1], betaNot/tao lies in [betaNot, 1] and is 1 on the first step, and
\* the averages move by that beta: after the first step averageTD is the
\* tdError and movingtdEligErrorAverage is tdError times the trace.
C17_BiasCorrectedStep ==
    /\ learned.op = "init" => (gvf.taoRUPEE = Zero /\ gvf.taoUDE = Zero)
    /\ C17_Step =>
         LET s == learned.before
             tdError == GVF_tdError(s, learned.lastState, learned.newState)
             sample == VScale(tdError, gvf.eligibilityTrace)
             betaRUPEE == RDiv(s.betaNotRUPEE, gvf.taoRUPEE)
             betaUDE == RDiv(s.betaNotUDE, gvf.taoUDE)
         IN  /\ C17_Admissible(s.betaNotRUPEE) =>
                  /\ C17_Tao(s.betaNotRUPEE, s.taoRUPEE, gvf.taoRUPEE)
                  /\ gvf.movingtdEligErrorAverage =
                         VPlus(VScale(RMinus(One, betaRUPEE), s.movingtdEligErrorAverage),
                               VScale(betaRUPEE, sample))
                  /\ s.taoRUPEE = Zero => gvf.movingtdEligErrorAverage = sample
             /\ C17_Admissible(s.betaNotUDE) =>
                  /\ C17_Tao(s.betaNotUDE, s.taoUDE, gvf.taoUDE)
                  /\ gvf.averageTD = RPlus(RTimes(RMinus(One, betaUDE), s.averageTD),
                                           RTimes(betaUDE, tdError))
                  /\ s.taoUDE = Zero => gvf.averageTD = tdError

\* C17's case: a later step of a learner whose two betaNot are both in
\* (0, 1], with taoRUPEE growing and still below 1.
C17_Witness ==
    /\ C17_Step
    /\ C17_Admissible(gvf.betaNotRUPEE) /\ C17_Admissible(gvf.betaNotUDE)
    /\ RLt(Zero, learned.before.taoRUPEE)
    /\ RLt(learned.before.taoRUPEE, gvf.taoRUPEE)
    /\ RLt(gvf.taoRUPEE, One)
    /\ gvf.movingtdEligErrorAverage # zeros(StateLen)

\* 1 - prediction(phi), and 1 - alpha * |phi|^2
C18_Error(s, phi) == RMinus(One, GVF_prediction(s, phi))
C18_Factor(s, phi) == RMinus(One, RTimes(s.alpha, dot(phi, phi)))

\* A TD learn step on a non-zero phi with 0 < alpha * |phi|^2 < 2.
C18_Step ==
    /\ learned.op = "learn" /\ learned.result = "None"
    /\ gvf.learn = "TD"
    /\ learned.lastState # zeros(Len(learned.lastState))
    /\ RLt(Zero, RTimes(gvf.alpha, dot(learned.lastState, learned.lastState)))
    /\ RLt(RTimes(gvf.alpha, dot(learned.lastState, learned.lastState)), Two)

\* C18: with cumulant 1 and gamma 0, a TD learn step on phi multiplies the
\* error 1 - prediction(phi) by 1 - alpha * |phi|^2, a factor of absolute
\* value below 1, so the absolute error at phi does not grow and shrinks
\* while it is not 0.
C18_ErrorContracts ==
    C18_Step =>
        LET phi == learned.lastState
            error == C18_Error(learned.before, phi)
            error_after == C18_Error(gvf, phi)
            factor == C18_Factor(gvf, phi)
        IN  /\ GVF_cumulant(learned.newState) = One
            /\ GVF_gamma(learned.newState) = Zero
            /\ error_after = RTimes(factor, error)
            /\ RLt(RAbs(factor), One)
            /\ RLeq(RAbs(error_after), RAbs(error))
            /\ error # Zero => RLt(RAbs(error_after), RAbs(error))

\* C18's case: a step on the phi the step before was on, with an error left
\* to shrink and a factor other than 0.
C18_Witness ==
    /\ C18_Step
    /\ nLearns >= 2
    /\ learned.before.eligibilityTrace = learned.lastState
    /\ learned.before.weights # zeros(StateLen)
    /\ C18_Factor(gvf, learned.lastState) # Zero
    /\ C18_Error(gvf, learned.lastState) # Zero
    /\ RLt(RAbs(C18_Error(gvf, learned.lastState)),
           RAbs(C18_Error(learned.before, learned.lastState)))

\* The number of update calls among the first i calls made on the Switch,
\* and the sub-policy the latest of them went to (the explorer if none).
RECURSIVE C19_Updates(_)
C19_Updates(i) ==
    IF i = 0 THEN 0
    ELSE C19_Updates(i - 1) + (IF selections[i].op = "update" THEN 1 ELSE 0)
RECURSIVE C19_LastUpdated(_)
C19_LastUpdated(i) ==
    IF i = 0 THEN "explorer"
    ELSE IF selections[i].op = "update" THEN selections[i].policy
    ELSE C19_LastUpdated(i - 1)

\* C19: the k-th update call goes to the explorer when k <= n and to the
\* exploiter when k > n, so the explorer has received min(k, n) updates and
\* the exploiter the rest; get_probability and choose_action go to the
\* sub-policy the latest update went to (the explorer before any update);
\* and no call goes to the explorer after a call went to the exploiter.
C19_ExploreThenExploit ==
    LET n == switch.num_timesteps_explore
        calls == Len(selections)
        k_all == C19_Updates(calls)
    IN  /\ \A i \in 1..calls :
               IF selections[i].op = "update"
               THEN selections[i].policy =
                        IF C19_Updates(i) <= n THEN "explorer" ELSE "exploiter"
               ELSE selections[i].policy = C19_LastUpdated(i - 1)
        /\ switch.explorer.updates = Min(k_all, n)
        /\ switch.exploiter.updates = k_all - Min(k_all, n)
        /\ \A i \in 1..calls : \A j \in i..calls :
               selections[i].policy = "exploiter" => selections[j].policy = "exploiter"

\* C19's case: the explorer is updated and asked, then the exploiter.
C19_Witness ==
    /\ switch.num_timesteps_explore = 1
    /\ Len(selections) = 4
    /\ selections[1] = [op |-> "update", policy |-> "explorer"]
    /\ selections[2] = [op |-> "get_probability", policy |-> "explorer"]
    /\ selections[3] = [op |-> "update", policy |-> "exploiter"]
    /\ selections[4] = [op |-> "choose_action", policy |-> "exploiter"]
    /\ switch.explorer.updates = 1 /\ switch.exploiter.updates = 1

\* C20: an update with bump active leaves the policy it went to with pi
\* one-hot on TURN, whatever the class of the three, the value and
\* last_index; with bump inactive pi has one entry per action, none
\* negative, and the entries sum to 1.
C20_OverrideOnBump ==
    pcall.op = "update" =>
        LET pi == switch[pcall.policy].pi
        IN  IF pcall.observation.bump
            THEN pi = [i \in 1..Len(action_space) |->
                          IF i = self_TURN + 1 THEN One ELSE Zero]
            ELSE /\ Len(pi) = Len(action_space)
                 /\ \A i \in 1..Len(pi) : RLeq(Zero, pi[i])
                 /\ SumFrom(pi, 1) = One

\* C20's case: bump overrides a policy that prefers FORWARD: a value at or
\* below 0.5, last_index FORWARD, and a pi that gave FORWARD the larger
\* weight.
C20_Witness ==
    /\ pcall.op = "update" /\ pcall.observation.bump
    /\ RLeq(pcall.p, Half)
    /\ pcall.before.last_index = self_FORWARD
    /\ RLt(pcall.before.pi[self_TURN + 1], pcall.before.pi[self_FORWARD + 1])
    /\ switch[pcall.policy].pi[self_TURN + 1] = One

\* The theta an applied update of transition x leaves when it finds the
\* object s, takes step_size for its primary step and ends with the object t.
C21_Theta(s, x, t, step_size) ==
    LET action_phi == action_state_phi(action_space, x.phi, x.last_action)
        action_phi_primes == state_actions(x.phi_prime)
        action_phi_bar == lookup(action_phi_primes,
                                 greedy_action(s.theta, action_phi_primes, x.last_action))
        e == C14_Trace(s, x)
        correction == RTimes(RTimes(s.last_gamma, RMinus(One, lmbda)),
                             dot(s.sec_weights, action_phi))
    IN  [j \in 1..num_features |->
            RPlus(s.theta[j],
                  RTimes(step_size, RMinus(RTimes(t.delta, e[j]),
                                           RTimes(correction, action_phi_bar[j]))))]

\* What C21 says of one applied update from object s to object t: one draw
\* from each schedule, and base/k (decay) or base (constant) as the primary
\* step size, k being the number of the draw.
C21_Applied(s, x, t) ==
    LET k == s.alpha.draws + 1
        step_size == IF s.alpha.decay THEN RDiv(alpha_base, FromInt(k)) ELSE alpha_base
    IN  /\ t.alpha.draws = s.alpha.draws + 1
        /\ t.beta.draws = s.beta.draws + 1
        /\ \A j \in 1..num_features : t.theta[j] = C21_Theta(s, x, t, step_size)[j]

\* C21: the k-th value of decay(base) is base/k and every value of
\* constant(base) is base; a learner's two schedules have yielded nothing at
\* construction, one value each per applied update (replaying or not) and
\* none on a skipped one; and the primary step of the k-th applied update
\* is alpha/k with decay=True and alpha without.
C21_StepSizes ==
    /\ next_value(gq.alpha) = IF gq.alpha.decay
                              THEN RDiv(alpha_base, FromInt(gq.alpha.draws + 1))
                              ELSE alpha_base
    /\ next_value(gq.beta) = IF gq.beta.decay
                             THEN RDiv(beta_base, FromInt(gq.beta.draws + 1))
                             ELSE beta_base
    /\ call.op = "init" => (gq.alpha.draws = 0 /\ gq.beta.draws = 0)
    /\ (call.op = "update" /\ call.result # "ValueError") =>
           IF call.skipped
           THEN gq.alpha = before.alpha /\ gq.beta = before.beta
           ELSE C21_Applied(before, call.args, gq)
    /\ \A i \in 1..Len(call.replayed) :
           C21_Applied(call.replayed[i].pre, call.replayed[i].experience,
                       call.replayed[i].post)

\* C21's case: a learner with decay=True makes its third applied update, the
\* second having been a replay, and theta moves.
C21_Witness ==
    /\ gq.alpha.decay
    /\ call.op = "update" /\ call.result # "ValueError" /\ ~call.skipped
    /\ before.alpha.draws = 2 /\ before.timeStep = 1
    /\ gq.theta # before.theta
    /\ next_value(gq.alpha) = RDiv(alpha_base, FromInt(4))

\* C22: when the main block of a launcher has ended, every child process
\* that was started has been joined.
C22_StartedAreJoined ==
    launcher.phase = "ended" =>
        \A i \in 1..Len(joins) : launcher[joins[i]] \in {"unbound", "created", "joined"}

\* C23: the file is written by exactly those applied non-replayed updates
\* that leave timeStep a positive multiple of the period, with the history
\* as it then is; skipped updates and replayed updates never write it; so
\* it has been written once per full period of timeSteps.
C23_PeriodicSnapshot ==
    /\ gq.dumps = gq.timeStep \div DumpPeriod
    /\ (call.op = "update" /\ call.result # "ValueError") =>
           IF ~call.skipped /\ gq.timeStep > 0 /\ gq.timeStep % DumpPeriod = 0
           THEN /\ gq.dumps = before.dumps + 1
                /\ gq.average_td_errors_file = gq.average_td_errors
           ELSE /\ gq.dumps = before.dumps
                /\ gq.average_td_errors_file = before.average_td_errors_file
    /\ \A i \in 1..Len(call.replayed) :
           /\ call.replayed[i].post.dumps = call.replayed[i].pre.dumps
           /\ call.replayed[i].post.average_td_errors_file =
                  call.replayed[i].pre.average_td_errors_file

\* C23's case: the second snapshot has been written, and a replay has
\* happened without writing one.
C23_Witness ==
    /\ gq.dumps = 2
    /\ gq.timeStep = 2 * DumpPeriod
    /\ Len(gq.average_td_errors_file) = gq.timeStep + 1
    /\ nReplays > 0

\* A learn call that applied its rule: it returned, and not by the early
\* return of lines 141-142 and 176-177.
C24_Step ==
    /\ learned.op = "learn" /\ learned.result = "None"
    /\ gvf.learn = "TD" \/ (learned.lastState # <<>> /\ learned.newState # <<>>)

\* C24: every learn step a rule applies advances the RUPEE and UDE
\* trackers: i by one, both tao traces by their recurrence, averageTD and
\* movingtdEligErrorAverage towards the step's TD error, and hHatWeights by
\* its own rule, whichever of "TD", "GTD" and "TO GTD" the rule is.
C24_TrackersAdvance ==
    C24_Step =>
        LET s == learned.before
            tdError == GVF_tdError(s, learned.lastState, learned.newState)
            betaUDE == RDiv(s.betaNotUDE, gvf.taoUDE)
            betaRUPEE == RDiv(s.betaNotRUPEE, gvf.taoRUPEE)
        IN  /\ gvf.i = s.i + 1
            /\ gvf.taoRUPEE = RPlus(RTimes(RMinus(One, s.betaNotRUPEE), s.taoRUPEE),
                                    s.betaNotRUPEE)
            /\ gvf.taoUDE = RPlus(RTimes(RMinus(One, s.betaNotUDE), s.taoUDE),
                                  s.betaNotUDE)
            /\ gvf.averageTD = RPlus(RTimes(RMinus(One, betaUDE), s.averageTD),
                                     RTimes(betaUDE, tdError))
            /\ gvf.movingtdEligErrorAverage =
                   VPlus(VScale(RMinus(One, betaRUPEE), s.movingtdEligErrorAverage),
                         VScale(RTimes(betaRUPEE, tdError), gvf.eligibilityTrace))
            /\ gvf.hHatWeights =
                   VPlus(s.hHatWeights,
                         VScale(s.alphaRUPEE,
                                VMinus(VScale(tdError, gvf.eligibilityTrace),
                                       VScale(dot(s.hHatWeights, learned.lastState),
                                              learned.lastState))))

\* C25: every update call that returns, replaying or not, returns the
\* state-action vector of the phi and last_action it was passed; the value
\* returned is self.action_phi as the call leaves it.
C25_ReturnsOwnRepresentation ==
    /\ (call.op = "update" /\ call.result = "action_phi") =>
           gq.action_phi = action_state_phi(action_space, call.args.phi,
                                            call.args.last_action)
    /\ \A i \in 1..Len(call.replayed) :
           LET r == call.replayed[i]
           IN  r.post.action_phi = action_state_phi(action_space, r.experience.phi,
                                                    r.experience.last_action)

\* A GTD learn call of an off-policy GVF that applied its rule to an action
\* other than the one its target policy takes in lastState.
C26_OffTargetStep ==
    /\ learned.op = "learn" /\ learned.result = "None"
    /\ learned.lastState # <<>> /\ learned.newState # <<>>
    /\ gvf.learn = "GTD" /\ gvf.isOffPolicy
    /\ ~equal_twists(learned.action, GVF_policy(learned.lastState))

\* C26: rho is 1 for every action of an on-policy GVF and 0 or 1 for an
\* off-policy one; a GTD step of an off-policy GVF on an action that is not
\* the target policy's has rho 0, leaves the primary weights as they were and
\* the eligibility trace zero.
C26_RhoGatesUpdate ==
    /\ \A i \in 1..Len(action_space) : \A state \in FeatureVectors :
           GVF_rho(gvf, action_space[i], state)
               \in (IF gvf.isOffPolicy THEN {Zero, One} ELSE {One})
    /\ C26_OffTargetStep =>
           /\ GVF_rho(learned.before, learned.action, learned.lastState) = Zero
           /\ gvf.weights = learned.before.weights
           /\ gvf.eligibilityTrace = zeros(Len(learned.lastState))

\* An off-target step taken when the weights and the trace had already moved
\* and the TD error was not zero.
C26_Witness ==
    /\ C26_OffTargetStep
    /\ learned.before.weights # zeros(StateLen)
    /\ learned.before.eligibilityTrace # zeros(StateLen)
    /\ GVF_tdError(learned.before, learned.lastState, learned.newState) # Zero
    /\ gvf.weights = learned.before.weights

\* C27: line 147 of learn step k hands step k the vector that step k-1 left
\* in weightsL, so the claim is that after every applied "TO GTD" step
\* weightsL holds the primary weights as they were before that step, and
\* weights - weightsL is the increment the step applied.
C27_WeightsLastIsPrevious ==
    ( /\ learned.op = "learn" /\ learned.result = "None"
      /\ learned.lastState # <<>> /\ learned.newState # <<>>
      /\ gvf.learn = "TO GTD" ) =>
        Deref(gvf, gvf.weightsL) = learned.before.weights

\* The first applied update with replaying_experience=False after an
\* episode ended: the one that follows the skipped update.
C28_FirstAfterTermination ==
    /\ last_update.op = "update" /\ last_update.skipped
    /\ nUpdates' = nUpdates + 1
    /\ call'.op = "update" /\ ~call'.skipped /\ call'.result = "action_phi"

\* C28: no eligibility crosses an episode boundary: the first applied
\* non-replayed update after a termination starts with e the zero vector,
\* whatever replays ran between the terminating update and it.
C28_NoEligibilityAcrossBoundary ==
    [][C28_FirstAfterTermination => gq.e = zeros(num_features)]_vars

C30_VarianceNonNegative ==
    ( /\ gvf.learn \in {"TD", "GTD"}
      /\ RLt(Zero, gvf.betaNotUDE) /\ RLeq(gvf.betaNotUDE, One) ) =>
        /\ RLeq(Zero, gvf.tdVariance)
        /\ ude(gvf).result = "number"
        /\ RLt(Zero, ude(gvf).plus)

\* Two learn steps of such a learner, with betaNotUDE below 1, the TD
\* error away from its average and a variance above zero.
C30_Witness ==
    /\ gvf.learn \in {"TD", "GTD"}
    /\ RLt(Zero, gvf.betaNotUDE) /\ RLt(gvf.betaNotUDE, One)
    /\ gvf.i = 3
    /\ RLt(Zero, gvf.tdVariance)
    /\ gvf.averageTD # Zero

=============================================================================
